---------------------------- MODULE Spec2Model ----------------------------
(***************************************************************************)
(* A model of tidwall/ryu (src/ryu.c): the Ryu double-to-shortest-decimal  *)
(* conversion (d2d, d2d_small_int, to_chars, copy_special_str) and the     *)
(* ryu_string formatter shell that rewrites the canonical scientific       *)
(* string into 'e', 'E' or 'f' form and copies it into a caller buffer.    *)
(*                                                                         *)
(* TLC's integers are 32 bits wide, the program's are 64 and 128 bits      *)
(* wide.  Every uint64_t / uint128_t value is therefore held as a          *)
(* little-endian sequence of 15-bit limbs (the empty sequence is 0, the    *)
(* most significant limb is never 0), and the C operators are modelled on  *)
(* that representation with the width of the C type applied where the C    *)
(* arithmetic wraps.                                                       *)
(***************************************************************************)
EXTENDS Integers, Sequences, FiniteSets, TLC

(***************************************************************************)
(* Multi-limb naturals.                                                    *)
(***************************************************************************)
Base == 2^15

Min(a, b) == IF a < b THEN a ELSE b

Max(a, b) == IF a > b THEN a ELSE b

Limb(a, i) == IF i <= Len(a) THEN a[i] ELSE 0

RECURSIVE BNorm(_)
BNorm(a) ==
    IF a = <<>> THEN a
    ELSE IF a[Len(a)] # 0 THEN a
    ELSE BNorm(SubSeq(a, 1, Len(a) - 1))

RECURSIVE BFromInt(_)
BFromInt(n) == IF n = 0 THEN <<>> ELSE <<n % Base>> \o BFromInt(n \div Base)

RECURSIVE BToIntFrom(_, _)
BToIntFrom(a, i) == IF i > Len(a) THEN 0 ELSE a[i] + Base * BToIntFrom(a, i + 1)

\* The value of a multi-limb natural that is known to be below 2^31.
BToInt(a) == BToIntFrom(a, 1)

BIsZero(a) == a = <<>>

\* The highest limb where a and b of equal length differ.
BTopDiff(a, b) ==
    CHOOSE i \in 1..Len(a) :
        a[i] # b[i] /\ \A j \in (i + 1)..Len(a) : a[j] = b[j]

\* -1, 0, 1 as a < b, a = b, a > b.
BCmp(a, b) ==
    IF Len(a) < Len(b) THEN -1
    ELSE IF Len(a) > Len(b) THEN 1
    ELSE IF a = b THEN 0
    ELSE IF a[BTopDiff(a, b)] < b[BTopDiff(a, b)] THEN -1
    ELSE 1

BLt(a, b) == BCmp(a, b) < 0

BLe(a, b) == BCmp(a, b) <= 0

\* Sums and products by a small factor are computed over a range of limbs
\* lo..hi by halving the range, the carry c passing from the lower half to
\* the upper one; s is the limbs of the range and c the carry out of it.
BJoin(left, right) == [s |-> left.s \o right.s, c |-> right.c]

BCarryOut(r) == IF r.c = 0 THEN r.s ELSE Append(r.s, r.c)

RECURSIVE BAddRange(_, _, _, _, _)
RECURSIVE BAddUpper(_, _, _, _, _)
BAddRange(a, b, lo, hi, c) ==
    IF lo = hi
    THEN [s |-> <<(Limb(a, lo) + Limb(b, lo) + c) % Base>>,
          c |-> (Limb(a, lo) + Limb(b, lo) + c) \div Base]
    ELSE BAddUpper(BAddRange(a, b, lo, (lo + hi) \div 2, c),
                   a, b, (lo + hi) \div 2 + 1, hi)

BAddUpper(left, a, b, lo, hi) == BJoin(left, BAddRange(a, b, lo, hi, left.c))

BAdd(a, b) ==
    IF a = <<>> THEN b
    ELSE IF b = <<>> THEN a
    ELSE BCarryOut(BAddRange(a, b, 1, Max(Len(a), Len(b)), 0))

RECURSIVE BSubFrom(_, _, _, _, _)
BSubFrom(a, b, i, c, acc) ==
    IF i > Len(a) THEN acc
    ELSE LET s == a[i] - Limb(b, i) - c
         IN  IF s < 0
             THEN BSubFrom(a, b, i + 1, 1, Append(acc, s + Base))
             ELSE BSubFrom(a, b, i + 1, 0, Append(acc, s))

\* a - b for a >= b.
BSub(a, b) == BNorm(BSubFrom(a, b, 1, 0, <<>>))

RECURSIVE BMulSmallRange(_, _, _, _, _)
RECURSIVE BMulSmallUpper(_, _, _, _, _)
BMulSmallRange(a, k, lo, hi, c) ==
    IF lo = hi
    THEN [s |-> <<(a[lo] * k + c) % Base>>, c |-> (a[lo] * k + c) \div Base]
    ELSE BMulSmallUpper(BMulSmallRange(a, k, lo, (lo + hi) \div 2, c),
                        a, k, (lo + hi) \div 2 + 1, hi)

BMulSmallUpper(left, a, k, lo, hi) ==
    BJoin(left, BMulSmallRange(a, k, lo, hi, left.c))

\* a * k for 0 <= k < Base.
BMulSmall(a, k) ==
    IF k = 0 \/ a = <<>> THEN <<>>
    ELSE BCarryOut(BMulSmallRange(a, k, 1, Len(a), 0))

BShlLimbs(a, n) == IF a = <<>> THEN a ELSE [i \in 1..n |-> 0] \o a

RECURSIVE BMul(_, _)
BMul(a, b) ==
    IF a = <<>> \/ b = <<>> THEN <<>>
    ELSE BAdd(BMulSmall(b, a[1]), BShlLimbs(BMul(Tail(a), b), 1))

RECURSIVE BDivSmallFrom(_, _, _, _, _)
BDivSmallFrom(a, k, i, r, acc) ==
    IF i = 0 THEN [quot |-> BNorm(acc), rem |-> r]
    ELSE LET s == r * Base + a[i]
         IN  BDivSmallFrom(a, k, i - 1, s % k, <<s \div k>> \o acc)

\* Quotient and remainder of a by k, 0 < k < Base.
BDivMod(a, k) == BDivSmallFrom(a, k, Len(a), 0, <<>>)

BDivSmall(a, k) == BDivMod(a, k).quot

BModSmall(a, k) == BDivMod(a, k).rem

\* a * 2^n
BShl(a, n) == BShlLimbs(BMulSmall(a, 2^(n % 15)), n \div 15)

\* floor(a / 2^n)
BShr(a, n) ==
    LET q == n \div 15
        r == n % 15
    IN  IF q >= Len(a) THEN <<>>
        ELSE LET t == SubSeq(a, q + 1, Len(a))
             IN  IF r = 0 THEN t ELSE BDivSmall(t, 2^r)

\* a mod 2^n: the conversion of a to an unsigned type n bits wide.
BTrunc(a, n) ==
    LET q == n \div 15
        r == n % 15
    IN  IF q >= Len(a) THEN a
        ELSE BNorm(Append(SubSeq(a, 1, q), a[q + 1] % (2^r)))

BPow2(n) == BShl(<<1>>, n)

\* (a - b) mod 2^n for a, b < 2^n: unsigned subtraction n bits wide.
BSubWrap(a, b, n) ==
    IF BLe(b, a) THEN BSub(a, b) ELSE BSub(BAdd(a, BPow2(n)), b)

\* (a + b) mod 2^n
BAddWrap(a, b, n) == BTrunc(BAdd(a, b), n)

\* (a * b) mod 2^n
BMulWrap(a, b, n) == BTrunc(BMul(a, b), n)

BIsEven(a) == a = <<>> \/ a[1] % 2 = 0

(***************************************************************************)
(* Constants of the source.                                                *)
(***************************************************************************)
DOUBLE_MANTISSA_BITS == 52

DOUBLE_EXPONENT_BITS == 11

DOUBLE_BIAS == 1023

DOUBLE_POW5_INV_BITCOUNT == 125

DOUBLE_POW5_BITCOUNT == 125

DOUBLE_POW5_INV_TABLE_SIZE == 342

DOUBLE_POW5_TABLE_SIZE == 326

(***************************************************************************)
(* The full power-of-five tables (the build without RYU_OPTIMIZE_SIZE).    *)
(***************************************************************************)
\* DOUBLE_POW5_INV_SPLIT[q] of the source is DOUBLE_POW5_INV_SPLIT[q + 1] here:
\* the pair <<mul[0], mul[1]>> (low and high 64 bits), each in 15-bit limbs.
DOUBLE_POW5_INV_SPLIT == <<
    <<<<1>>, <<0, 0, 0, 0, 2>>>>,
    <<<<6554, 13107, 26214, 19660, 9>>, <<6553, 13107, 26214, 19660, 1>>>>,
    <<<<11797, 17039, 20971, 15728, 4>>, <<31457, 23592, 1310, 9175, 1>>>>,
    <<<<9438, 524, 3670, 25690, 6>>, <<31719, 25427, 14155, 786, 1>>>>,
    <<<<21654, 20499, 12425, 21443, 7>>, <<11429, 14470, 2988, 20919, 1>>>>,
    <<<<17323, 3292, 16494, 4047, 6>>, <<28804, 18129, 22051, 10181, 1>>>>,
    <<<<13858, 28848, 19748, 9791, 11>>, <<3382, 27611, 24194, 1591, 1>>>>,
    <<<<9066, 282, 18491, 15666, 8>>, <<18519, 31070, 19050, 22207, 1>>>>,
    <<<<20360, 19886, 1685, 32194, 9>>, <<14815, 24856, 15240, 11212, 1>>>>,
    <<<<9735, 15909, 1348, 12648, 14>>, <<5298, 19885, 12192, 2416, 1>>>>,
    <<<<2468, 5794, 8711, 13683, 13>>, <<15031, 12155, 32615, 23526, 1>>>>,
    <<<<15082, 17742, 13522, 30607, 13>>, <<5471, 29385, 32645, 12267, 1>>>>,
    <<<<18619, 20747, 17371, 31039, 7>>, <<4377, 23508, 26116, 3260, 1>>>>,
    <<<<3576, 428, 21241, 10341, 6>>, <<450, 4845, 2465, 24878, 1>>>>,
    <<<<29075, 26556, 16992, 21380, 14>>, <<6913, 16983, 28186, 13348, 1>>>>,
    <<<<16707, 21245, 7040, 3997, 2>>, <<5531, 20140, 15995, 4125, 1>>>>,
    <<<<13623, 7778, 24372, 19502, 6>>, <<15403, 12563, 19039, 26261, 1>>>>,
    <<<<4345, 32437, 32604, 2494, 2>>, <<5769, 3497, 21785, 14455, 1>>>>,
    <<<<29690, 6288, 6423, 15103, 14>>, <<11168, 9351, 30535, 5010, 1>>>>,
    <<<<1629, 29723, 29937, 11057, 10>>, <<11316, 28069, 9534, 27678, 1>>>>,
    <<<<7857, 10671, 23950, 2292, 5>>, <<9053, 9348, 1074, 15589, 1>>>>,
    <<<<19393, 15090, 32267, 21494, 13>>, <<20349, 7478, 20520, 5917, 1>>>>,
    <<<<11368, 17591, 25413, 21284, 2>>, <<26006, 11965, 64, 29129, 1>>>>,
    <<<<28755, 965, 670, 30135, 14>>, <<20804, 9572, 19712, 16749, 1>>>>,
    <<<<9897, 7326, 13643, 17554, 5>>, <<10090, 20765, 2662, 6846, 1>>>>,
    <<<<9281, 24829, 28382, 14979, 2>>, <<22698, 13563, 17367, 30614, 1>>>>,
    <<<<20532, 202, 9599, 5430, 5>>, <<5051, 23958, 786, 17938, 1>>>>,
    <<<<9872, 13269, 20786, 30558>>, <<4041, 25720, 26843, 7796, 1>>>>,
    <<<<2688, 1570, 20151, 3018, 11>>, <<6465, 8384, 23289, 32135, 1>>>>,
    <<<<2151, 1256, 29228, 2414, 12>>, <<18279, 19814, 31738, 19154, 1>>>>,
    <<<<8274, 27219, 16828, 8485, 3>>, <<8070, 22405, 12283, 8770, 1>>>>,
    <<<<6619, 8668, 26570, 234, 9>>, <<32670, 4816, 22934, 462, 1>>>>,
    <<<<10591, 26976, 3190, 26590, 4>>, <<12951, 20814, 3926, 20401, 1>>>>,
    <<<<15026, 15027, 22213, 27825, 3>>, <<23468, 29758, 9694, 9767, 1>>>>,
    <<<<25128, 31682, 30877, 15706, 9>>, <<18774, 30360, 7755, 1260, 1>>>>,
    <<<<7437, 4817, 10083, 5470, 15>>, <<3824, 28916, 5855, 21677, 1>>>>,
    <<<<5950, 30068, 1512, 24037, 5>>, <<29274, 23132, 4684, 10788, 1>>>>,
    <<<<17867, 24054, 27424, 32336, 10>>, <<3758, 5399, 29962, 2076, 1>>>>,
    <<<<2373, 25380, 24218, 5863, 11>>, <<25674, 21745, 28278, 22983, 1>>>>,
    <<<<8452, 643, 19375, 11244, 15>>, <<878, 10843, 16069, 11833, 1>>>>,
    <<<<13315, 20175, 22053, 8995, 12>>, <<7256, 28335, 6301, 2913, 1>>>>,
    <<<<27858, 12619, 9071, 27500, 6>>, <<18164, 25675, 29743, 24321, 1>>>>,
    <<<<9179, 3542, 7257, 22000, 8>>, <<14531, 20540, 30348, 12903, 1>>>>,
    <<<<13897, 9387, 12359, 30707, 6>>, <<24732, 9878, 17725, 3769, 1>>>>,
    <<<<2574, 28127, 19774, 3256, 11>>, <<26464, 2698, 2146, 25692, 1>>>>,
    <<<<8613, 29055, 15819, 15712, 2>>, <<14618, 28373, 1716, 14000, 1>>>>,
    <<<<19998, 16690, 19209, 19123, 11>>, <<24801, 22698, 14480, 4646, 1>>>>,
    <<<<5781, 7044, 30735, 10936, 15>>, <<20021, 10103, 3508, 27095, 1>>>>,
    <<<<11179, 5635, 24588, 21856, 2>>, <<22571, 27743, 15913, 15122, 1>>>>,
    <<<<2390, 24169, 9, 24039, 11>>, <<4949, 2534, 12731, 5544, 1>>>>,
    <<<<10377, 25563, 13122, 5694, 9>>, <<7919, 10608, 26923, 28531, 1>>>>,
    <<<<14855, 7343, 10498, 24216, 13>>, <<19442, 8486, 28092, 16271, 1>>>>,
    <<<<18438, 25535, 21505, 25926, 7>>, <<28661, 13342, 29027, 6463, 1>>>>,
    <<<<3286, 21196, 27855, 21821, 15>>, <<19643, 21348, 568, 30003, 1>>>>,
    <<<<22289, 3849, 28838, 10903, 9>>, <<9161, 10525, 26669, 17448, 1>>>>,
    <<<<11278, 9633, 9963, 21830, 10>>, <<775, 28081, 14781, 7405, 1>>>>,
    <<<<11491, 15413, 29048, 28374, 13>>, <<20901, 12161, 17097, 31509, 1>>>>,
    <<<<2639, 5777, 16685, 29253, 7>>, <<16721, 22836, 570, 18654, 1>>>>,
    <<<<8665, 11175, 26455, 23402, 12>>, <<19930, 11715, 20117, 8369, 1>>>>,
    <<<<379, 28601, 27717, 25275, 3>>, <<22498, 22479, 2986, 142, 1>>>>,
    <<<<20266, 12993, 31241, 14226, 12>>, <<9782, 22860, 4778, 19888, 1>>>>,
    <<<<9659, 3841, 24993, 24488, 6>>, <<20933, 11734, 30037, 9356, 1>>>>,
    <<<<1174, 3073, 26548, 6483, 2>>, <<10193, 15941, 30583, 931, 1>>>>,
    <<<<1878, 18024, 16262, 3820, 13>>, <<3201, 25506, 29272, 21151, 1>>>>,
    <<<<27717, 20972, 19563, 16163, 10>>, <<15668, 26958, 29971, 10367, 1>>>>,
    <<<<22174, 10224, 9097, 6377, 5>>, <<5981, 15013, 23977, 1740, 1>>>>,
    <<<<22370, 29466, 27662, 23310, 14>>, <<29230, 10913, 31810, 22445, 1>>>>,
    <<<<17896, 3912, 9023, 25202, 11>>, <<23384, 15284, 5787, 11403, 1>>>>,
    <<<<27424, 22790, 20325, 7054, 6>>, <<25261, 12227, 30844, 2568, 1>>>>,
    <<<<4557, 23358, 6306, 30948, 9>>, <<1096, 26118, 3475, 23771, 1>>>>,
    <<<<23307, 31793, 11598, 11651, 14>>, <<7430, 7787, 9334, 12463, 1>>>>,
    <<<<5538, 5774, 9279, 22428, 14>>, <<19051, 25890, 913, 3417, 1>>>>,
    <<<<15415, 28899, 27953, 9670, 4>>, <<10822, 2103, 1462, 25128, 1>>>>,
    <<<<25439, 3458, 22363, 7736>>, <<21765, 1682, 27384, 13548, 1>>>>,
    <<<<26905, 22427, 30997, 12742, 3>>, <<30519, 21006, 15353, 4285, 1>>>>,
    <<<<16833, 3116, 3721, 13835, 5>>, <<22616, 7396, 18012, 26517, 1>>>>,
    <<<<26574, 9046, 29191, 30728, 13>>, <<4985, 25578, 14409, 14660, 1>>>>,
    <<<<27813, 683, 23353, 31136, 7>>, <<23649, 801, 24635, 5174, 1>>>>,
    <<<<18286, 27308, 4596, 10497, 6>>, <<18178, 20943, 13201, 27940, 1>>>>,
    <<<<14629, 28400, 29891, 21504, 14>>, <<27649, 16754, 23668, 15798, 1>>>>,
    <<<<31364, 29273, 17359, 23757, 11>>, <<9012, 6850, 12381, 6085, 1>>>>,
    <<<<30521, 20623, 14668, 31458, 5>>, <<14420, 10960, 13256, 29397, 1>>>>,
    <<<<11310, 29606, 11734, 31720, 7>>, <<24643, 2214, 10605, 16964, 1>>>>,
    <<<<9048, 4024, 22495, 18822, 9>>, <<6607, 27986, 28144, 7017, 1>>>>,
    <<<<21030, 26099, 9777, 30116, 8>>, <<4018, 25117, 12263, 30889, 1>>>>,
    <<<<16824, 7772, 7822, 4432, 7>>, <<9768, 26647, 29471, 18157, 1>>>>,
    <<<<6906, 19325, 25918, 3545, 12>>, <<7814, 14764, 23577, 7972, 1>>>>,
    <<<<30710, 4705, 2148, 25334, 9>>, <<12503, 30176, 4955, 32417, 1>>>>,
    <<<<24568, 3764, 8272, 20267, 4>>, <<3449, 24141, 3964, 19380, 1>>>>,
    <<<<26208, 3011, 64, 29321, 6>>, <<2759, 32420, 16278, 8950, 1>>>>,
    <<<<1306, 8963, 51, 3796, 15>>, <<28421, 12828, 26130, 606, 1>>>>,
    <<<<21749, 1233, 82, 32288, 4>>, <<25814, 27079, 22147, 20631, 1>>>>,
    <<<<30507, 986, 26280, 19276, 13>>, <<14097, 28217, 24271, 9951, 1>>>>,
    <<<<17852, 789, 21024, 28528, 10>>, <<4724, 2913, 25971, 1407, 1>>>>,
    <<<<2348, 20924, 13977, 19431, 4>>, <<27220, 24321, 8785, 21913, 1>>>>,
    <<<<21540, 10185, 24289, 22098, 3>>, <<21776, 32564, 474, 10977, 1>>>>,
    <<<<30339, 1594, 25985, 4571, 6>>, <<10867, 32605, 379, 2228, 1>>>>,
    <<<<15774, 9105, 21915, 26975, 9>>, <<4280, 25954, 20268, 23225, 1>>>>,
    <<<<25727, 730, 4425, 28134, 7>>, <<3424, 7656, 29322, 12026, 1>>>>,
    <<<<14028, 20245, 10093, 22507, 12>>, <<15846, 12678, 30011, 3067, 1>>>>,
    <<<<2783, 25839, 16149, 22904, 10>>, <<12247, 7178, 15250, 24569, 1>>>>,
    <<<<21888, 14117, 19473, 18323, 8>>, <<3244, 31957, 31860, 13101, 1>>>>,
    <<<<17510, 4740, 9025, 8105, 13>>, <<15702, 12458, 32042, 3927, 1>>>>,
    <<<<8355, 1031, 1333, 19522, 11>>, <<5463, 26487, 18499, 25945, 1>>>>,
    <<<<26345, 20485, 14173, 2510, 6>>, <<30585, 1528, 27907, 14202, 1>>>>,
    <<<<21076, 16388, 17892, 15115, 14>>, <<31021, 20883, 22325, 4808, 1>>>>,
    <<<<20614, 13114, 22074, 11077, 10>>, <<23420, 26860, 22613, 27354, 1>>>>,
    <<<<9938, 17045, 17659, 2308, 5>>, <<5629, 28042, 4983, 15330, 1>>>>,
    <<<<7950, 13636, 1020, 14954, 10>>, <<17610, 9326, 17094, 5710, 1>>>>,
    <<<<19274, 28371, 14739, 23926>>, <<28177, 8368, 20797, 28797, 1>>>>,
    <<<<15419, 3036, 24899, 25694, 3>>, <<29095, 26355, 16637, 16484, 1>>>>,
    <<<<18889, 28643, 26472, 20555, 12>>, <<29829, 1423, 203, 6634, 1>>>>,
    <<<<17115, 32722, 3034, 19782, 10>>, <<14959, 15385, 6878, 30275, 1>>>>,
    <<<<7139, 6517, 15535, 2718, 2>>, <<5414, 31969, 18609, 17666, 1>>>>,
    <<<<18818, 24874, 18981, 21835, 1>>, <<23992, 19021, 21441, 7579, 1>>>>,
    <<<<30109, 13584, 4156, 15276, 15>>, <<12172, 4220, 8092, 31788, 1>>>>,
    <<<<24087, 30528, 22985, 31881, 5>>, <<9738, 3376, 32688, 18876, 1>>>>,
    <<<<25823, 11315, 24942, 18951, 1>>, <<1237, 2701, 32704, 8547, 1>>>>,
    <<<<27212, 22159, 6846, 2054, 14>>, <<14096, 8714, 26163, 284, 1>>>>,
    <<<<23879, 2687, 4401, 29501, 12>>, <<9447, 27050, 15646, 20116, 1>>>>,
    <<<<12550, 15257, 10074, 17047, 13>>, <<14111, 1979, 19071, 9539, 1>>>>,
    <<<<10040, 5652, 14613, 20191, 7>>, <<11289, 21244, 2149, 1078, 1>>>>,
    <<<<22617, 9043, 3720, 19199, 2>>, <<18063, 7776, 23100, 21385, 1>>>>,
    <<<<4986, 20342, 29190, 21912, 11>>, <<27557, 12774, 31587, 10554, 1>>>>,
    <<<<10543, 22827, 3691, 4423, 6>>, <<2385, 23327, 12162, 1890, 1>>>>,
    <<<<29975, 16862, 25567, 26737, 9>>, <<3816, 24216, 12906, 22685, 1>>>>,
    <<<<10873, 13490, 13900, 1729, 11>>, <<29267, 19372, 23432, 11594, 1>>>>,
    <<<<21806, 4238, 30781, 27597, 8>>, <<16860, 28605, 5638, 2722, 1>>>>,
    <<<<15228, 13335, 23035, 11388, 1>>, <<7316, 6447, 9022, 24016, 1>>>>,
    <<<<12183, 10668, 18428, 15664, 7>>, <<12406, 11711, 13771, 12659, 1>>>>,
    <<<<3193, 1981, 8189, 19085, 15>>, <<29585, 29029, 30677, 3573, 1>>>>,
    <<<<11662, 9723, 32763, 4321, 12>>, <<27676, 13679, 3209, 25379, 1>>>>,
    <<<<2776, 1225, 19657, 3457>>, <<28695, 10943, 22228, 13749, 1>>>>,
    <<<<8774, 14087, 2618, 2766>>, <<22956, 15308, 4675, 4446, 1>>>>,
    <<<<931, 15986, 4189, 30640, 12>>, <<17068, 31047, 20587, 26774, 1>>>>,
    <<<<7299, 6235, 9905, 4851, 7>>, <<7101, 5177, 3363, 14866, 1>>>>,
    <<<<25500, 11541, 21031, 10434, 15>>, <<25341, 4141, 9244, 5339, 1>>>>,
    <<<<1478, 31574, 20542, 29802, 14>>, <<27439, 6626, 21344, 28203, 1>>>>,
    <<<<27397, 31812, 22987, 30395, 11>>, <<8844, 24962, 10521, 16009, 1>>>>,
    <<<<15364, 5789, 5283, 30870, 15>>, <<20182, 6862, 28078, 6253, 1>>>>,
    <<<<31136, 28923, 28113, 23177, 12>>, <<32292, 30640, 31817, 29666, 1>>>>,
    <<<<24909, 29692, 9383, 18542>>, <<12727, 31066, 32007, 17179, 1>>>>,
    <<<<266, 10647, 20614, 1726, 10>>, <<10181, 5192, 12499, 7190, 1>>>>,
    <<<<20087, 10481, 26429, 15869, 6>>, <<3183, 1754, 13445, 31165, 1>>>>,
    <<<<29177, 14938, 21143, 32356, 1>>, <<28761, 7956, 23863, 18378, 1>>>>,
    <<<<29895, 31611, 30021, 32438, 7>>, <<29562, 32579, 12536, 8149, 1>>>>,
    <<<<28171, 4703, 15267, 32241, 15>>, <<14531, 25913, 26612, 32699, 1>>>>,
    <<<<9430, 16870, 31874, 12685, 6>>, <<31286, 1069, 8183, 19606, 1>>>>,
    <<<<7544, 13496, 12392, 16702, 11>>, <<31582, 855, 13100, 9131, 1>>>>,
    <<<<25696, 30457, 9913, 6808, 9>>, <<18712, 20345, 17033, 751, 1>>>>,
    <<<<8345, 2857, 2755, 30554, 1>>, <<29940, 32552, 7592, 20863, 1>>>>,
    <<<<26337, 2285, 2204, 11336, 14>>, <<10844, 26042, 32288, 10136, 1>>>>,
    <<<<27623, 14935, 14870, 15622, 11>>, <<28336, 20833, 32384, 1555, 1>>>>,
    <<<<24536, 17343, 10685, 18442, 5>>, <<19124, 26780, 12493, 22150, 1>>>>,
    <<<<19629, 20428, 21655, 1646, 14>>, <<8745, 8317, 23102, 11166, 1>>>>,
    <<<<22257, 3235, 23878, 27531, 4>>, <<13550, 13207, 25035, 2379, 1>>>>,
    <<<<22504, 11730, 31651, 24389, 7>>, <<21680, 8024, 13842, 23468, 1>>>>,
    <<<<4896, 15938, 18767, 26065, 15>>, <<23897, 6419, 4520, 12221, 1>>>>,
    <<<<17024, 12750, 8460, 7745, 6>>, <<19118, 24796, 10169, 3223, 1>>>>,
    <<<<27238, 20400, 13536, 12392>>, <<4375, 13460, 3164, 24818, 1>>>>,
    <<<<8683, 22874, 4275, 23021, 6>>, <<29714, 30428, 28745, 13300, 1>>>>,
    <<<<20054, 31406, 29634, 18416, 8>>, <<23771, 30896, 3335, 4087, 1>>>>,
    <<<<18979, 17482, 21201, 3252, 4>>, <<24927, 16666, 5337, 26200, 1>>>>,
    <<<<21737, 20539, 10407, 15709, 6>>, <<26495, 6779, 17377, 14406, 1>>>>,
    <<<<23943, 16431, 1772, 19121, 11>>, <<14642, 11977, 20455, 4971, 1>>>>,
    <<<<5541, 19737, 9389, 4379, 12>>, <<16874, 25717, 13067, 27615, 1>>>>,
    <<<<24093, 15789, 27172, 29717, 12>>, <<13499, 14020, 23561, 15538, 1>>>>,
    <<<<6168, 6078, 2077, 10667, 10>>, <<30460, 17769, 12295, 5877, 1>>>>,
    <<<<29529, 29385, 29537, 23620, 3>>, <<29076, 28431, 19672, 29064, 1>>>>,
    <<<<30177, 3847, 10523, 25450, 15>>, <<23260, 3084, 2631, 16698, 1>>>>,
    <<<<11034, 3078, 14972, 699, 3>>, <<12055, 9021, 28319, 6804, 1>>>>,
    <<<<24208, 31139, 30508, 20779, 1>>, <<6181, 14434, 19096, 30548, 1>>>>,
    <<<<25920, 24911, 30960, 16623, 4>>, <<31159, 18100, 8723, 17885, 1>>>>,
    <<<<20736, 268, 18215, 6745, 13>>, <<18373, 1373, 20086, 7754, 1>>>>,
    <<<<13517, 6983, 9483, 4239, 5>>, <<9737, 8751, 5923, 32068, 1>>>>,
    <<<<4260, 31801, 1032, 9945, 7>>, <<14343, 447, 30953, 19100, 1>>>>,
    <<<<3408, 5780, 20487, 14509, 15>>, <<24581, 20018, 5101, 8727, 1>>>>,
    <<<<2727, 4624, 9836, 18161, 15>>, <<13111, 9461, 4081, 428, 1>>>>,
    <<<<24023, 20505, 2630, 29058, 8>>, <<14425, 28245, 26190, 20345, 1>>>>,
    <<<<19219, 16404, 2104, 29800, 3>>, <<31201, 29149, 1291, 9723, 1>>>>,
    <<<<15375, 16, 27898, 10732, 6>>, <<18407, 29873, 27247, 1224, 1>>>>,
    <<<<11492, 26, 24976, 30279, 6>>, <<3237, 8476, 17382, 21620, 1>>>>,
    <<<<9194, 13128, 26534, 24223, 8>>, <<9143, 227, 27013, 10742, 1>>>>,
    <<<<7355, 17056, 21227, 25932, 3>>, <<761, 13289, 21610, 2040, 1>>>>,
    <<<<24875, 14182, 27410, 15277, 12>>, <<20878, 1601, 28023, 22925, 1>>>>,
    <<<<6793, 11346, 21928, 5668, 13>>, <<3595, 20942, 2757, 11787, 1>>>>,
    <<<<31649, 9076, 24096, 24195, 13>>, <<15983, 3646, 2206, 2876, 1>>>>,
    <<<<4763, 14523, 32000, 25605, 2>>, <<25574, 32048, 16636, 24262, 1>>>>,
    <<<<30025, 5064, 12493, 27038, 11>>, <<13905, 19085, 13309, 12856, 1>>>>,
    <<<<24020, 23712, 23101, 21630, 12>>, <<24231, 8714, 17201, 3731, 1>>>>,
    <<<<18771, 18279, 23855, 8394, 4>>, <<32217, 7389, 7861, 25631, 1>>>>,
    <<<<15017, 1516, 25638, 6715>>, <<6113, 19019, 12842, 13951, 1>>>>,
    <<<<31674, 20873, 849, 31587, 12>>, <<31104, 21768, 16827, 4607, 1>>>>,
    <<<<31018, 7183, 21020, 11217, 14>>, <<30106, 8615, 26924, 27032, 1>>>>,
    <<<<5154, 5747, 16816, 2420, 5>>, <<10978, 13446, 21539, 15072, 1>>>>,
    <<<<10677, 11151, 6899, 21597, 13>>, <<21889, 17310, 17231, 5504, 1>>>>,
    <<<<3975, 17842, 17592, 1787, 9>>, <<21916, 1482, 1356, 28468, 1>>>>,
    <<<<3180, 7720, 27181, 21090, 13>>, <<24086, 7739, 27299, 16220, 1>>>>,
    <<<<9098, 19283, 28298, 29979, 10>>, <<32376, 19298, 2178, 6423, 1>>>>,
    <<<<1449, 17746, 32170, 28306, 7>>, <<5927, 17771, 23146, 29937, 1>>>>,
    <<<<20820, 1089, 32290, 16091, 9>>, <<11295, 7663, 18517, 17396, 1>>>>,
    <<<<10103, 7425, 6171, 19427, 7>>, <<9036, 12684, 21367, 7363, 1>>>>,
    <<<<3057, 18434, 16427, 31083, 8>>, <<27565, 20294, 21080, 31442, 1>>>>,
    <<<<22106, 8193, 26249, 24866>>, <<28606, 16235, 16864, 18600, 1>>>>,
    <<<<17685, 13108, 20999, 232, 7>>, <<29438, 26095, 26598, 8326, 1>>>>,
    <<<<27255, 10486, 3692, 186, 12>>, <<23550, 20876, 27832, 107, 1>>>>,
    <<<<17394, 23332, 5907, 26512, 12>>, <<11466, 7188, 11764, 19833, 1>>>>,
    <<<<7362, 31773, 24386, 21209>>, <<15727, 25411, 2857, 9313, 1>>>>,
    <<<<25550, 5757, 26063, 16967>>, <<6028, 20329, 28500, 896, 1>>>>,
    <<<<8112, 28873, 28593, 20594, 13>>, <<9644, 6312, 25940, 21095, 1>>>>,
    <<<<32704, 16544, 16321, 23029, 7>>, <<14269, 11603, 1091, 10323, 1>>>>,
    <<<<26163, 128, 32718, 11869, 9>>, <<11415, 15836, 27087, 1704, 1>>>>,
    <<<<28754, 19866, 6473, 32099, 14>>, <<18264, 18784, 17125, 22388, 1>>>>,
    <<<<23003, 29000, 5178, 12572, 2>>, <<27719, 28134, 7146, 11357, 1>>>>,
    <<<<11849, 10093, 17250, 29718, 1>>, <<9068, 15954, 5717, 2532, 1>>>>,
    <<<<12405, 16149, 27600, 27888, 15>>, <<14508, 32080, 9147, 23712, 1>>>>,
    <<<<23031, 26026, 15526, 15757, 9>>, <<5053, 12557, 7318, 12416, 1>>>>,
    <<<<31532, 27374, 5867, 25713, 10>>, <<23703, 10045, 12408, 3379, 1>>>>,
    <<<<17683, 17585, 9388, 21480, 7>>, <<11711, 29180, 26406, 25067, 1>>>>,
    <<<<27254, 7514, 957, 4077, 6>>, <<22476, 16790, 21125, 13500, 1>>>>,
    <<<<28357, 6011, 26980, 16368, 14>>, <<4873, 19986, 30007, 4246, 1>>>>,
    <<<<12602, 3065, 30061, 13082, 10>>, <<1244, 12317, 28351, 26455, 1>>>>,
    <<<<3528, 22113, 10941, 10466, 8>>, <<20656, 9853, 3020, 14611, 1>>>>,
    <<<<22484, 30797, 15306, 1819, 13>>, <<23078, 27543, 8969, 5135, 1>>>>,
    <<<<3206, 3401, 24491, 9464, 11>>, <<10711, 4748, 7798, 27877, 1>>>>,
    <<<<28779, 2720, 32700, 20678, 2>>, <<28230, 16905, 6238, 15748, 1>>>>,
    <<<<29577, 15283, 19606, 9989, 5>>, <<2923, 6971, 31205, 6044, 1>>>>,
    <<<<21108, 17900, 11709, 15983, 8>>, <<17784, 30814, 23713, 29332, 1>>>>,
    <<<<10333, 1213, 2814, 6233, 13>>, <<27334, 4990, 18971, 16912, 1>>>>,
    <<<<14820, 20631, 28465, 31200>>, <<2207, 30207, 15176, 6976, 1>>>>,
    <<<<10605, 242, 12777, 17153, 1>>, <<23192, 9009, 4622, 30823, 1>>>>,
    <<<<8484, 26408, 23328, 13722, 4>>, <<25107, 7207, 29912, 18104, 1>>>>,
    <<<<19894, 21126, 25216, 17531, 3>>, <<13532, 18873, 10822, 7930, 1>>>>,
    <<<<12170, 20695, 7578, 21497, 5>>, <<8544, 17090, 10762, 32349, 1>>>>,
    <<<<16290, 29663, 6062, 10644, 1>>, <<13389, 26779, 28270, 19325, 1>>>>,
    <<<<6478, 17177, 17957, 21622, 10>>, <<4157, 27977, 2955, 8907, 1>>>>,
    <<<<24844, 13741, 7812, 30405, 14>>, <<22986, 22381, 2364, 572, 1>>>>,
    <<<<6981, 15433, 19053, 28987, 7>>, <<30225, 16149, 3783, 20576, 1>>>>,
    <<<<18692, 12346, 21796, 29743, 15>>, <<30733, 12919, 9580, 9907, 1>>>>,
    <<<<8400, 9877, 30544, 23794, 12>>, <<31140, 10335, 7664, 1372, 1>>>>,
    <<<<333, 9250, 9549, 31518, 13>>, <<23610, 29644, 12262, 21856, 1>>>>,
    <<<<26481, 27060, 1085, 18661, 1>>, <<12335, 30269, 16363, 10931, 1>>>>,
    <<<<21185, 21648, 868, 28036, 10>>, <<16421, 24215, 19644, 2191, 1>>>>,
    <<<<20788, 21530, 21050, 12089, 1>>, <<19721, 25637, 11770, 23167, 1>>>>,
    <<<<3524, 23778, 29947, 22778, 10>>, <<2669, 20510, 9416, 11980, 1>>>>,
    <<<<9373, 5915, 23958, 24776, 11>>, <<2135, 16408, 20640, 3030, 1>>>>,
    <<<<14996, 9464, 18672, 26535, 2>>, <<3417, 6592, 26471, 24509, 1>>>>,
    <<<<5443, 14125, 21491, 1567, 15>>, <<15840, 24934, 8069, 13054, 1>>>>,
    <<<<4355, 11300, 30300, 20914, 5>>, <<19226, 19947, 26116, 3889, 1>>>>,
    <<<<26628, 24633, 28819, 695, 9>>, <<24208, 5701, 15572, 25884, 1>>>>,
    <<<<27856, 6599, 16502, 20217, 13>>, <<19366, 17668, 32118, 14153, 1>>>>,
    <<<<9178, 31494, 26308, 3066, 14>>, <<8939, 7581, 19141, 4769, 1>>>>,
    <<<<14684, 24176, 2772, 18014, 6>>, <<20857, 18683, 4411, 27292, 1>>>>,
    <<<<11747, 32448, 21878, 7857, 5>>, <<10132, 8393, 3529, 15280, 1>>>>,
    <<<<2844, 19405, 10949, 19393, 10>>, <<27766, 19821, 15930, 5670, 1>>>>,
    <<<<17658, 24494, 10965, 31029>>, <<5105, 12054, 18935, 28733, 1>>>>,
    <<<<27234, 32702, 2218, 31377, 3>>, <<17191, 22750, 8594, 16433, 1>>>>,
    <<<<2126, 13055, 14882, 11994, 6>>, <<7199, 5093, 322, 6593, 1>>>>,
    <<<<3402, 20888, 10704, 32298, 6>>, <<4965, 8149, 20176, 30209, 1>>>>,
    <<<<9275, 3603, 2010, 19285, 5>>, <<3972, 26180, 3033, 17614, 1>>>>,
    <<<<13974, 22543, 8161, 28535, 10>>, <<22838, 27497, 22087, 7537, 1>>>>,
    <<<<22358, 16408, 32719, 19441, 4>>, <<29988, 17781, 2572, 31721, 1>>>>,
    <<<<11333, 6573, 32729, 8999, 13>>, <<4329, 20779, 8611, 18823, 1>>>>,
    <<<<2513, 31473, 32736, 7199, 4>>, <<29678, 23176, 335, 8505, 1>>>>,
    <<<<8564, 12071, 13082, 31974, 12>>, <<4081, 25095, 13375, 250, 1>>>>,
    <<<<594, 19314, 7824, 31498, 7>>, <<13084, 20491, 14847, 20061, 1>>>>,
    <<<<13583, 28558, 19366, 25198, 12>>, <<23574, 22946, 18431, 9495, 1>>>>,
    <<<<4313, 16293, 15493, 26712, 3>>, <<12306, 18357, 27852, 1042, 1>>>>,
    <<<<26561, 12961, 11682, 3418, 6>>, <<13136, 3157, 11796, 21329, 1>>>>,
    <<<<14695, 10369, 2792, 28949, 4>>, <<23616, 22186, 29097, 10509, 1>>>>,
    <<<<5203, 14849, 8787, 23159>>, <<18893, 30856, 10170, 1854, 1>>>>,
    <<<<27985, 4097, 27167, 4286, 1>>, <<10568, 3495, 22827, 22627, 1>>>>,
    <<<<15834, 16385, 8626, 23090, 13>>, <<1900, 22457, 18261, 11548, 1>>>>,
    <<<<25775, 6554, 6901, 18472, 4>>, <<8074, 24519, 8055, 2685, 1>>>>,
    <<<<15025, 30148, 11041, 16448, 10>>, <<32579, 19569, 6335, 23957, 1>>>>,
    <<<<12020, 30672, 2279, 6605, 5>>, <<32617, 15655, 5068, 12612, 1>>>>,
    <<<<29277, 24537, 21484, 11837, 7>>, <<32647, 25631, 4054, 3536, 1>>>>,
    <<<<27182, 19599, 1607, 5833, 2>>, <<32575, 27903, 19594, 25318, 1>>>>,
    <<<<21746, 2572, 1286, 11220, 11>>, <<32613, 9215, 9122, 13701, 1>>>>,
    <<<<17397, 28272, 1028, 8976, 12>>, <<12983, 13926, 13851, 4407, 1>>>>,
    <<<<8174, 25575, 8199, 20915, 3>>, <<1113, 9175, 22162, 26712, 1>>>>,
    <<<<6539, 20460, 26220, 23285, 15>>, <<27104, 27000, 17729, 14816, 1>>>>,
    <<<<31446, 3260, 27530, 31735, 2>>, <<2023, 15047, 20737, 5299, 1>>>>,
    <<<<4438, 11771, 24387, 11455, 14>>, <<22897, 17521, 6965, 28140, 1>>>>,
    <<<<23211, 29077, 19509, 9164, 8>>, <<31425, 20570, 18679, 15958, 1>>>>,
    <<<<5462, 23262, 2500, 778, 13>>, <<18586, 3349, 8390, 6213, 1>>>>,
    <<<<8738, 24112, 10554, 27459, 4>>, <<23185, 31573, 316, 29602, 1>>>>,
    <<<<13544, 25843, 8443, 8860, 10>>, <<11994, 18705, 253, 17128, 1>>>>,
    <<<<23943, 20674, 13308, 20195, 14>>, <<22702, 8410, 26417, 7148, 1>>>>,
    <<<<5540, 6865, 14740, 19205, 10>>, <<3556, 13457, 29160, 31098, 1>>>>,
    <<<<17539, 31706, 31452, 21917, 11>>, <<29059, 23872, 16774, 18325, 1>>>>,
    <<<<7478, 25365, 18608, 30641, 2>>, <<16694, 32205, 26526, 8106, 1>>>>,
    <<<<25072, 1262, 29774, 9704, 14>>, <<7049, 12207, 22782, 32631, 1>>>>,
    <<<<20058, 27224, 30372, 7763, 8>>, <<12193, 16319, 24779, 19551, 1>>>>,
    <<<<9493, 28333, 30851, 25871, 9>>, <<29415, 6501, 26377, 9087, 1>>>>,
    <<<<7594, 29220, 18127, 20697, 4>>, <<10425, 24862, 21101, 716, 1>>>>,
    <<<<5597, 877, 22451, 6901, 4>>, <<3573, 458, 14102, 20807, 1>>>>,
    <<<<24138, 701, 31068, 12074, 3>>, <<9412, 20027, 11281, 10092, 1>>>>,
    <<<<12757, 561, 31408, 9659, 12>>, <<7529, 9468, 9025, 1520, 1>>>>,
    <<<<13858, 14005, 24038, 2348, 10>>, <<12047, 28256, 7886, 22093, 1>>>>,
    <<<<24193, 4650, 12677, 28093, 4>>, <<22745, 29158, 32523, 11120, 1>>>>,
    <<<<19355, 3720, 3588, 15921, 13>>, <<24749, 10219, 6358, 2343, 1>>>>,
    <<<<11307, 32167, 5740, 18920, 5>>, <<13385, 3244, 29834, 23409, 1>>>>,
    <<<<2492, 6073, 30807, 2028, 14>>, <<17261, 2595, 10760, 12174, 1>>>>,
    <<<<8547, 24519, 24645, 8176, 11>>, <<26916, 28290, 28268, 3185, 1>>>>,
    <<<<7121, 32677, 26325, 13082, 8>>, <<29959, 19050, 5908, 24758, 1>>>>,
    <<<<25358, 26141, 21060, 3912, 13>>, <<4306, 8687, 30941, 13252, 1>>>>,
    <<<<7179, 7806, 23402, 9683, 7>>, <<3445, 396, 24753, 4048, 1>>>>,
    <<<<18040, 19043, 4675, 28601, 14>>, <<18619, 20294, 26497, 26138, 1>>>>,
    <<<<1325, 28342, 29954, 22880, 8>>, <<21449, 16235, 14644, 14357, 1>>>>,
    <<<<1060, 16120, 30517, 31411, 6>>, <<4052, 19542, 11715, 4932, 1>>>>,
    <<<<27910, 12684, 9506, 30598, 7>>, <<13037, 31267, 18744, 27552, 1>>>>,
    <<<<15775, 16701, 1051, 17925, 9>>, <<16983, 31567, 14995, 15488, 1>>>>,
    <<<<19174, 6807, 841, 14340, 4>>, <<7033, 5593, 5443, 5837, 1>>>>,
    <<<<17570, 4338, 14453, 16390, 13>>, <<17806, 2395, 8709, 29000, 1>>>>,
    <<<<20610, 23131, 24669, 6558, 1>>, <<20799, 15023, 20074, 16646, 1>>>>,
    <<<<9934, 18505, 6628, 18354, 10>>, <<10085, 5465, 22613, 6763, 1>>>>,
    <<<<9341, 16501, 30266, 9705, 7>>, <<9583, 28405, 23073, 30482, 1>>>>,
    <<<<20580, 19754, 17659, 27425, 5>>, <<14220, 3063, 18459, 17832, 1>>>>,
    <<<<9911, 22357, 14127, 21940, 4>>, <<11376, 9004, 14767, 7712, 1>>>>,
    <<<<9303, 9557, 22604, 2336, 1>>, <<18202, 20960, 23627, 32000, 1>>>>,
    <<<<27103, 7645, 4976, 21530, 13>>, <<27668, 10214, 32009, 19046, 1>>>>,
    <<<<8576, 12670, 30195, 4116, 14>>, <<9027, 1618, 32161, 8683, 1>>>>,
    <<<<307, 29797, 30709, 29507, 4>>, <<7222, 7848, 19175, 393, 1>>>>,
    <<<<20152, 8353, 9814, 20998, 4>>, <<18109, 6003, 17573, 20290, 1>>>>,
    <<<<3014, 19790, 20958, 16798>>, <<21041, 24463, 27165, 9678, 1>>>>,
    <<<<2411, 15832, 23320, 331, 10>>, <<3725, 32678, 15178, 1189, 1>>>>,
    <<<<23519, 18777, 24205, 530>>, <<5961, 32624, 30839, 21563, 1>>>>,
    <<<<25369, 21575, 32471, 26638, 12>>, <<4768, 12992, 18118, 10697, 1>>>>,
    <<<<13742, 4153, 12870, 1650, 7>>, <<30029, 23500, 14494, 2004, 1>>>>,
    <<<<21986, 19752, 14038, 22301, 1>>, <<15279, 4833, 29745, 22867, 1>>>>,
    <<<<30696, 2694, 24338, 24394, 7>>, <<25330, 3866, 23796, 11740, 1>>>>,
    <<<<31111, 2155, 26024, 19515, 12>>, <<13710, 3093, 32144, 2838, 1>>>>,
    <<<<17009, 3449, 15424, 11564, 7>>, <<2276, 11503, 5555, 24203, 1>>>>,
    <<<<13607, 22420, 5785, 15805, 15>>, <<21481, 22309, 30658, 12808, 1>>>>,
    <<<<17439, 31043, 30842, 32304, 5>>, <<4078, 11294, 17973, 3693, 1>>>>,
    <<<<21349, 16901, 3473, 32027, 15>>, <<13078, 4963, 15650, 25570, 1>>>>,
    <<<<23633, 6967, 28993, 5960, 3>>, <<10463, 10524, 25627, 13902, 1>>>>,
    <<<<32014, 25234, 3533, 30983, 8>>, <<8370, 28080, 20501, 4568, 1>>>>,
    <<<<11900, 1054, 5654, 29912, 7>>, <<19946, 25267, 19695, 26970, 1>>>>,
    <<<<16074, 843, 24184, 23929, 12>>, <<22510, 26767, 28863, 15022, 1>>>>,
    <<<<6305, 26889, 25900, 19143>>, <<11455, 1753, 23091, 5464, 1>>>>
>>

\* DOUBLE_POW5_SPLIT[i] of the source is DOUBLE_POW5_SPLIT[i + 1] here.
DOUBLE_POW5_SPLIT == <<
    <<<<>>, <<0, 0, 0, 0, 1>>>>,
    <<<<>>, <<0, 0, 0, 8192, 1>>>>,
    <<<<>>, <<0, 0, 0, 18432, 1>>>>,
    <<<<>>, <<0, 0, 0, 31232, 1>>>>,
    <<<<>>, <<0, 0, 0, 7232, 1>>>>,
    <<<<>>, <<0, 0, 0, 17232, 1>>>>,
    <<<<>>, <<0, 0, 0, 29732, 1>>>>,
    <<<<>>, <<0, 0, 16384, 6294, 1>>>>,
    <<<<>>, <<0, 0, 4096, 16060, 1>>>>,
    <<<<>>, <<0, 0, 5120, 28267, 1>>>>,
    <<<<>>, <<0, 0, 31872, 5378, 1>>>>,
    <<<<>>, <<0, 0, 23456, 14915, 1>>>>,
    <<<<>>, <<0, 0, 21128, 26836, 1>>>>,
    <<<<>>, <<0, 0, 29589, 4484, 1>>>>,
    <<<<>>, <<0, 8192, 4218, 13798, 1>>>>,
    <<<<>>, <<0, 26624, 21656, 25439, 1>>>>,
    <<<<>>, <<0, 16640, 25823, 3611, 1>>>>,
    <<<<>>, <<0, 12608, 24087, 12706, 1>>>>,
    <<<<>>, <<0, 7568, 13725, 24075, 1>>>>,
    <<<<>>, <<0, 8826, 4482, 2759, 1>>>>,
    <<<<>>, <<16384, 27416, 30178, 11640, 1>>>>,
    <<<<>>, <<20480, 17886, 4955, 22743, 1>>>>,
    <<<<>>, <<4608, 7083, 15385, 1926, 1>>>>,
    <<<<>>, <<30336, 17045, 2847, 10600, 1>>>>,
    <<<<>>, <<13344, 13115, 3559, 21442, 1>>>>,
    <<<<>>, <<4244, 20485, 10416, 1113, 1>>>>,
    <<<<>>, <<13497, 25606, 21212, 9583, 1>>>>,
    <<<<0, 0, 0, 0, 4>>, <<487, 32008, 18323, 20171, 1>>>>,
    <<<<0, 0, 0, 16384, 8>>, <<304, 15909, 7356, 319, 1>>>>,
    <<<<0, 0, 0, 20480, 10>>, <<8572, 19886, 1003, 8591, 1>>>>,
    <<<<0, 0, 0, 9216, 13>>, <<27099, 16665, 25830, 18930, 1>>>>,
    <<<<0, 0, 0, 19712, 12>>, <<9298, 4448, 15904, 31855, 1>>>>,
    <<<<0, 0, 0, 28704, 11>>, <<5811, 2780, 22228, 7621, 1>>>>,
    <<<<0, 0, 0, 27688, 10>>, <<7264, 3475, 3209, 17719, 1>>>>,
    <<<<0, 0, 0, 18226, 13>>, <<888, 12536, 28587, 30340, 1>>>>,
    <<<<0, 0, 8192, 15487, 8>>, <<555, 3739, 1483, 6675, 1>>>>,
    <<<<0, 0, 2048, 19359, 6>>, <<25270, 29249, 26429, 16535, 1>>>>,
    <<<<0, 0, 27136, 7814>>, <<7012, 11986, 24845, 28861, 1>>>>,
    <<<<0, 0, 8768, 4884, 8>>, <<12574, 11587, 19624, 5750, 1>>>>,
    <<<<0, 0, 10960, 6105, 2>>, <<7526, 14484, 8146, 15380, 1>>>>,
    <<<<0, 0, 21892, 24015, 10>>, <<9407, 1721, 10183, 27417, 1>>>>,
    <<<<0, 16384, 25970, 23201, 12>>, <<26359, 13363, 26844, 4847, 1>>>>,
    <<<<0, 4096, 7887, 29002, 11>>, <<24757, 16704, 25363, 14251, 1>>>>,
    <<<<0, 29696, 26242, 28060, 2>>, <<30947, 12688, 23512, 26006, 1>>>>,
    <<<<0, 26752, 17, 25730, 15>>, <<19341, 7930, 6503, 3966, 1>>>>,
    <<<<0, 8864, 16406, 23970, 7>>, <<7793, 1721, 24513, 13149, 1>>>>,
    <<<<0, 27464, 4123, 21771, 13>>, <<17933, 10343, 6065, 24629, 1>>>>,
    <<<<0, 13069, 31249, 17702, 10>>, <<23496, 26944, 7886, 3105, 1>>>>,
    <<<<8192, 24528, 22677, 5744, 13>>, <<29370, 17296, 18050, 12073, 1>>>>,
    <<<<10240, 6084, 28347, 15372, 8>>, <<3945, 5237, 30755, 23283, 1>>>>,
    <<<<22784, 32474, 1332, 9608, 15>>, <<6561, 31945, 15125, 2264, 1>>>>,
    <<<<12096, 7825, 1666, 3818, 7>>, <<16394, 15355, 18907, 11022, 1>>>>,
    <<<<23312, 26165, 18466, 29348>>, <<12301, 11002, 7250, 21970, 1>>>>,
    <<<<18666, 24545, 27925, 18342, 2>>, <<15880, 15068, 12723, 1443, 1>>>>,
    <<<<31524, 6105, 18523, 6544, 3>>, <<19850, 10643, 7712, 9996, 1>>>>,
    <<<<14829, 32208, 23153, 32756, 11>>, <<16620, 13304, 9640, 20687, 1>>>>,
    <<<<9268, 7842, 30855, 16376, 15>>, <<10387, 8315, 18313, 641, 1>>>>,
    <<<<27969, 1610, 5801, 12279, 15>>, <<4792, 18586, 31083, 8993, 1>>>>,
    <<<<18578, 10205, 31827, 7156, 3>>, <<22375, 15040, 14278, 19434, 1>>>>,
    <<<<31414, 4564, 7016, 754>>, <<27969, 2416, 1464, 32485, 1>>>>,
    <<<<3250, 2853, 12577, 471, 10>>, <<17480, 1510, 5011, 8015, 1>>>>,
    <<<<12254, 11758, 7529, 16973, 12>>, <<5466, 26464, 30839, 18210, 1>>>>,
    <<<<31702, 22889, 17603, 21216, 7>>, <<6833, 24888, 22165, 30955, 1>>>>,
    <<<<7525, 10210, 11002, 25548, 14>>, <<4270, 19651, 9757, 7059, 1>>>>,
    <<<<25791, 29146, 13752, 15551, 10>>, <<29914, 32755, 4004, 17016, 1>>>>,
    <<<<15855, 3665, 8999, 3055, 5>>, <<29201, 8176, 5006, 29462, 1>>>>,
    <<<<30389, 14578, 17912, 6005, 13>>, <<18250, 29686, 27704, 6125, 1>>>>,
    <<<<21602, 18223, 30582, 15698, 8>>, <<6429, 4340, 10055, 15849, 1>>>>,
    <<<<18811, 6395, 21844, 19623, 14>>, <<8036, 30001, 20760, 28003, 1>>>>,
    <<<<7661, 20381, 25940, 4072, 1>>, <<25503, 18750, 8879, 5214, 1>>>>,
    <<<<17768, 25476, 32425, 13282, 13>>, <<15494, 15246, 27483, 14709, 1>>>>,
    <<<<22210, 7269, 24148, 24795, 8>>, <<2984, 10866, 9778, 26579, 1>>>>,
    <<<<17977, 20927, 10996, 15497, 5>>, <<10057, 14983, 2015, 4324, 1>>>>,
    <<<<14280, 26159, 21937, 27563, 10>>, <<4379, 10537, 2519, 13597, 1>>>>,
    <<<<9658, 8123, 19230, 18070, 9>>, <<13666, 4979, 11341, 25188, 1>>>>,
    <<<<1940, 29653, 3826, 31774, 9>>, <<4445, 7208, 23472, 3454, 1>>>>,
    <<<<10617, 20682, 21167, 15141>>, <<5557, 9010, 12956, 12510, 1>>>>,
    <<<<29655, 17660, 1883, 18927, 4>>, <<23330, 11262, 32579, 23829, 1>>>>,
    <<<<2150, 6942, 13465, 28213, 6>>, <<6389, 2943, 24458, 2605, 1>>>>,
    <<<<19072, 16869, 25023, 18882, 12>>, <<32562, 20062, 5996, 11449, 1>>>>,
    <<<<32032, 12894, 14895, 23603, 7>>, <<24319, 25078, 15687, 22503, 1>>>>,
    <<<<11828, 20347, 5213, 27040, 10>>, <<7007, 27962, 22092, 1776, 1>>>>,
    <<<<6593, 858, 6517, 17416, 9>>, <<25143, 2184, 27616, 10412, 1>>>>,
    <<<<24626, 9264, 8146, 29962, 7>>, <<31429, 2730, 1752, 21208, 1>>>>,
    <<<<15391, 13982, 13283, 31014, 6>>, <<27835, 1706, 1095, 967, 1>>>>,
    <<<<2855, 9286, 220, 22384, 4>>, <<18410, 26709, 25944, 9400, 1>>>>,
    <<<<19952, 11607, 275, 27980, 13>>, <<31204, 618, 32431, 19942, 1>>>>,
    <<<<24758, 3158, 16556, 21583>>, <<27695, 12674, 12077, 176, 1>>>>,
    <<<<14564, 3948, 12503, 26979, 12>>, <<18234, 24035, 15096, 8412, 1>>>>,
    <<<<18205, 29511, 7436, 956, 8>>, <<14601, 30044, 18870, 18707, 1>>>>,
    <<<<14564, 4121, 9296, 1195, 14>>, <<18251, 21171, 15396, 31576, 1>>>>,
    <<<<29582, 2575, 1714, 25323, 6>>, <<7311, 29616, 9622, 7447, 1>>>>,
    <<<<28786, 19603, 26718, 15269, 4>>, <<9139, 20636, 3836, 17501, 1>>>>,
    <<<<27791, 8120, 8822, 19087, 1>>, <<11424, 25795, 12987, 30068, 1>>>>,
    <<<<17369, 29651, 17801, 32409>>, <<3044, 12026, 24501, 6504, 1>>>>,
    <<<<13519, 12488, 30444, 7743, 1>>, <<20189, 23224, 30626, 16322, 1>>>>,
    <<<<16899, 15610, 29863, 17871, 5>>, <<25236, 12646, 21899, 28595, 1>>>>,
    <<<<18754, 22044, 30952, 15265, 11>>, <<7580, 3808, 9591, 5584, 1>>>>,
    <<<<23442, 27555, 14114, 10890, 14>>, <<9475, 29336, 11988, 15172, 1>>>>,
    <<<<21111, 18060, 1259, 29997, 13>>, <<11844, 3902, 14986, 27157, 1>>>>,
    <<<<29578, 7191, 4883, 22844>>, <<31979, 10630, 13462, 4685, 1>>>>,
    <<<<28781, 797, 6104, 28555, 12>>, <<23589, 29672, 25019, 14048, 1>>>>,
    <<<<11400, 997, 32206, 2925, 4>>, <<29487, 28898, 31274, 25752, 1>>>>,
    <<<<11221, 25199, 24224, 18212, 8>>, <<26621, 26253, 19546, 3807, 1>>>>,
    <<<<5834, 31499, 30280, 22765, 14>>, <<8700, 16433, 16241, 12951, 1>>>>,
    <<<<31869, 6605, 13275, 12073, 2>>, <<19068, 28733, 12109, 24381, 1>>>>,
    <<<<24014, 32, 28777, 15737, 9>>, <<16013, 22054, 11664, 2950, 1>>>>,
    <<<<30018, 8232, 11395, 27864, 15>>, <<3632, 27568, 30964, 11879, 1>>>>,
    <<<<4754, 2099, 14244, 26638, 3>>, <<4541, 1692, 30514, 23041, 1>>>>,
    <<<<31643, 17695, 710, 12553, 4>>, <<19222, 9249, 6783, 2113, 1>>>>,
    <<<<31362, 5735, 9080, 15691, 13>>, <<32219, 3369, 16671, 10833, 1>>>>,
    <<<<31011, 7169, 3158, 27806, 12>>, <<15698, 28788, 29030, 21733, 1>>>>,
    <<<<7094, 29057, 26549, 994, 12>>, <<26195, 9800, 22240, 1295, 1>>>>,
    <<<<17059, 11745, 16803, 1243, 11>>, <<32744, 12250, 19608, 9811, 1>>>>,
    <<<<29516, 6489, 12812, 26130, 13>>, <<24546, 15313, 16318, 20456, 1>>>>,
    <<<<6159, 20440, 16199, 20427, 12>>, <<3053, 1379, 10199, 497, 1>>>>,
    <<<<7699, 17358, 12057, 25534, 3>>, <<28393, 26299, 20940, 8813, 1>>>>,
    <<<<26008, 29889, 31455, 23725, 8>>, <<27299, 106, 1600, 19209, 1>>>>,
    <<<<7934, 29170, 14743, 29657, 6>>, <<17740, 133, 10192, 32203, 1>>>>,
    <<<<13151, 30519, 29694, 10343, 12>>, <<15183, 83, 2274, 7839, 1>>>>,
    <<<<8247, 21765, 28926, 12929, 11>>, <<10787, 16488, 27418, 17990, 1>>>>,
    <<<<18500, 10822, 11582, 7970, 10>>, <<13484, 4226, 17889, 30680, 1>>>>,
    <<<<3371, 31340, 15430, 13173, 14>>, <<16619, 23121, 11180, 6887, 1>>>>,
    <<<<4213, 22791, 27480, 82, 14>>, <<28966, 28901, 5783, 16801, 1>>>>,
    <<<<29843, 28488, 17966, 16487, 9>>, <<11632, 27935, 15421, 29193, 1>>>>,
    <<<<18652, 9613, 23517, 30784, 5>>, <<19558, 21555, 30118, 5957, 1>>>>,
    <<<<31507, 20208, 29396, 13904, 15>>, <<16255, 10560, 13072, 15639, 1>>>>,
    <<<<6615, 25261, 3977, 9189, 15>>, <<20319, 13200, 8148, 27741, 1>>>>,
    <<<<8230, 3500, 6582, 18031, 15>>, <<12699, 24634, 9188, 5050, 1>>>>,
    <<<<10288, 20759, 35, 14347, 15>>, <<32258, 30792, 27869, 14504, 1>>>>,
    <<<<4668, 17757, 24620, 9741, 11>>, <<7555, 13915, 2069, 26323, 1>>>>,
    <<<<7013, 27482, 19483, 1992, 5>>, <<626, 12793, 29965, 4163, 1>>>>,
    <<<<25151, 26160, 24354, 10682, 14>>, <<8974, 24183, 29264, 13396, 1>>>>,
    <<<<31439, 16316, 14059, 29737, 9>>, <<3026, 30229, 3812, 24938, 1>>>>,
    <<<<3265, 6102, 29267, 6297, 10>>, <<5987, 2509, 10575, 3298, 1>>>>,
    <<<<20465, 32203, 12007, 24256, 8>>, <<15676, 27712, 29602, 12314, 1>>>>,
    <<<<17390, 32062, 15009, 30320, 10>>, <<19595, 18256, 20619, 23585, 1>>>>,
    <<<<2677, 7751, 9381, 27142, 4>>, <<12247, 7314, 599, 2453, 1>>>>,
    <<<<27922, 17880, 28110, 1159, 2>>, <<31693, 950, 8941, 11258, 1>>>>,
    <<<<2134, 5967, 26946, 17833, 6>>, <<23232, 9380, 27560, 22264, 1>>>>,
    <<<<13622, 11921, 4553, 2954, 4>>, <<30904, 5862, 17225, 1627, 1>>>>,
    <<<<25219, 23093, 22075, 3692, 5>>, <<22246, 15520, 13339, 10226, 1>>>>,
    <<<<6948, 20675, 27594, 12807, 14>>, <<27807, 11208, 290, 20975, 1>>>>,
    <<<<247, 21114, 29534, 32580, 14>>, <<17379, 15197, 12469, 821, 1>>>>,
    <<<<16692, 10008, 4150, 24342, 14>>, <<29916, 27188, 23778, 9218, 1>>>>,
    <<<<20865, 28894, 21571, 14043, 2>>, <<4628, 17602, 13339, 19715, 1>>>>,
    <<<<4849, 13963, 9386, 16969, 9>>, <<11084, 6905, 4241, 34, 1>>>>,
    <<<<30637, 1069, 19925, 29403, 11>>, <<22047, 16823, 21685, 8234, 1>>>>,
    <<<<13720, 9529, 16714, 28562, 10>>, <<19367, 29221, 10722, 18485, 1>>>>,
    <<<<25343, 28295, 4508, 19319, 9>>, <<32401, 20142, 21595, 31298, 1>>>>,
    <<<<28127, 1300, 15106, 32554, 15>>, <<12058, 8493, 21689, 7273, 1>>>>,
    <<<<2391, 18010, 2498, 32501, 11>>, <<23265, 18808, 2535, 17284, 1>>>>,
    <<<<19373, 6128, 11315, 32434, 2>>, <<29082, 15318, 3169, 29797, 1>>>>,
    <<<<12108, 32502, 15263, 28463, 5>>, <<9984, 30054, 6076, 6335, 1>>>>,
    <<<<31519, 32435, 10887, 11003, 7>>, <<28864, 4799, 32172, 16110, 1>>>>,
    <<<<31207, 32352, 5417, 5562, 9>>, <<27888, 5999, 23831, 28330, 1>>>>,
    <<<<19504, 7932, 11578, 23956, 5>>, <<29718, 16037, 23086, 5418, 1>>>>,
    <<<<24380, 26299, 14472, 5369, 15>>, <<12571, 3663, 12474, 14965, 1>>>>,
    <<<<22283, 106, 26283, 31287, 14>>, <<7522, 20963, 23784, 26898, 1>>>>,
    <<<<22119, 28738, 28714, 11362, 13>>, <<605, 13102, 23057, 4523, 1>>>>,
    <<<<11265, 19539, 19509, 22395, 4>>, <<17141, 24569, 20629, 13846, 1>>>>,
    <<<<5889, 32616, 16194, 27994, 9>>, <<29618, 6135, 9403, 25500, 1>>>>,
    <<<<3680, 28577, 18313, 5208, 10>>, <<30799, 32506, 22260, 3649, 1>>>>,
    <<<<12793, 11145, 22892, 22894, 8>>, <<22115, 7865, 3250, 12754, 1>>>>,
    <<<<24183, 13931, 12231, 28618, 6>>, <<3068, 26216, 20446, 24134, 1>>>>,
    <<<<11018, 20995, 15836, 9694, 12>>, <<1917, 8193, 4587, 2796, 1>>>>,
    <<<<5581, 26244, 3411, 12118, 3>>, <<10589, 2049, 5734, 11687, 1>>>>,
    <<<<6976, 24613, 20648, 6955, 8>>, <<21428, 18945, 31743, 22800, 1>>>>,
    <<<<8456, 15383, 8809, 4347, 13>>, <<1104, 24129, 19839, 1962, 1>>>>,
    <<<<2378, 27421, 2819, 13626>>, <<9573, 21969, 8415, 10645, 1>>>>,
    <<<<11165, 26084, 19908, 17032, 4>>, <<20158, 19269, 18711, 21498, 1>>>>,
    <<<<23362, 32686, 12442, 27029, 14>>, <<16694, 24331, 19886, 1148, 1>>>>,
    <<<<12818, 24474, 23745, 17402, 10>>, <<12676, 14030, 24858, 9627, 1>>>>,
    <<<<32407, 6016, 13298, 5369, 13>>, <<32229, 1153, 22881, 20226, 1>>>>,
    <<<<20254, 11952, 28791, 7451, 10>>, <<7855, 21201, 22492, 353, 1>>>>,
    <<<<25318, 6748, 27797, 25698, 8>>, <<18011, 26501, 3539, 8634, 1>>>>,
    <<<<31647, 16627, 18362, 32123, 6>>, <<30706, 24934, 20808, 18984, 1>>>>,
    <<<<31367, 4400, 14761, 23770>>, <<21999, 31168, 26010, 31922, 1>>>>,
    <<<<19604, 23230, 17417, 14856, 6>>, <<13749, 27672, 24448, 7663, 1>>>>,
    <<<<8122, 4462, 21772, 2186, 12>>, <<17186, 1822, 22369, 17771, 1>>>>,
    <<<<26536, 5577, 10831, 2733, 7>>, <<5099, 10470, 19769, 30406, 1>>>>,
    <<<<4297, 15774, 10865, 13996, 2>>, <<27763, 27023, 4163, 6716, 1>>>>,
    <<<<21755, 27909, 13581, 1111, 15>>, <<26511, 25587, 5204, 16587, 1>>>>,
    <<<<2618, 10311, 8785, 25965, 14>>, <<24947, 31984, 31081, 28925, 1>>>>,
    <<<<13924, 26924, 9586, 8036, 7>>, <<15592, 7702, 23522, 5790, 1>>>>,
    <<<<17405, 17271, 11983, 1853, 9>>, <<3106, 26012, 13018, 15430, 1>>>>,
    <<<<13565, 13397, 23171, 10508, 3>>, <<3883, 16131, 32657, 27479, 1>>>>,
    <<<<12574, 4277, 30866, 2471>>, <<31099, 30561, 32698, 4886, 1>>>>,
    <<<<23909, 21730, 30390, 3089, 12>>, <<14297, 21818, 24489, 14300, 1>>>>,
    <<<<13503, 10779, 13412, 3862, 3>>, <<1488, 2697, 30612, 26067, 1>>>>,
    <<<<4343, 23121, 190, 31086, 1>>, <<21410, 18069, 15036, 4004, 1>>>>,
    <<<<13621, 12517, 16622, 14281, 10>>, <<2186, 22587, 18795, 13197, 1>>>>,
    <<<<25218, 32030, 28969, 1467, 5>>, <<27309, 20041, 31686, 24688, 1>>>>,
    <<<<7569, 7731, 14010, 5013, 5>>, <<4780, 4334, 19804, 3142, 1>>>>,
    <<<<1270, 26048, 25704, 14458, 6>>, <<22359, 5417, 8371, 12120, 1>>>>,
    <<<<1587, 32560, 15746, 1689, 4>>, <<3373, 31348, 10463, 23342, 1>>>>,
    <<<<992, 28542, 30321, 17439, 4>>, <<18492, 31880, 31115, 2300, 1>>>>,
    <<<<17624, 11101, 29710, 21799, 5>>, <<23115, 31658, 6126, 11068, 1>>>>,
    <<<<30222, 30260, 28945, 2673, 3>>, <<12510, 23189, 7658, 22027, 1>>>>,
    <<<<2505, 6625, 5803, 30343, 13>>, <<11914, 22685, 690, 1479, 1>>>>,
    <<<<11323, 89, 31830, 13352, 9>>, <<23085, 11972, 25439, 10040, 1>>>>,
    <<<<22346, 16495, 7019, 24883, 15>>, <<28856, 6773, 31799, 20742, 1>>>>,
    <<<<26254, 6213, 291, 27840, 9>>, <<22131, 16521, 11682, 676, 1>>>>,
    <<<<8242, 32343, 363, 10224, 8>>, <<3088, 4268, 14603, 9037, 1>>>>,
    <<<<2110, 32237, 454, 12780, 10>>, <<3860, 29911, 26445, 19488, 1>>>>,
    <<<<10830, 23912, 568, 32359, 12>>, <<29401, 12812, 289, 32553, 1>>>>,
    <<<<6768, 14945, 12643, 3840, 2>>, <<1992, 28488, 20660, 8057, 1>>>>,
    <<<<16653, 10489, 15804, 21184, 2>>, <<2490, 2842, 1250, 18264, 1>>>>,
    <<<<29008, 13111, 19755, 10096, 11>>, <<19496, 19936, 1562, 31022, 1>>>>,
    <<<<30418, 4098, 12347, 2214, 7>>, <<12185, 20652, 25552, 7100, 1>>>>,
    <<<<21638, 29699, 31817, 27343, 12>>, <<15231, 25815, 31940, 17067, 1>>>>,
    <<<<18856, 12548, 31580, 1411, 12>>, <<10847, 32269, 31733, 29526, 1>>>>,
    <<<<28169, 24226, 15641, 17266, 13>>, <<10875, 24264, 11641, 6166, 1>>>>,
    <<<<18827, 5707, 3168, 29775, 12>>, <<13594, 5754, 30936, 15899, 1>>>>,
    <<<<15342, 7134, 28536, 4450, 8>>, <<609, 7193, 30478, 28066, 1>>>>,
    <<<<1397, 4459, 26027, 2781, 15>>, <<20860, 29071, 27240, 5253, 1>>>>,
    <<<<26322, 30149, 7957, 28053, 2>>, <<17884, 3571, 9475, 14759, 1>>>>,
    <<<<8326, 13111, 18139, 18682, 3>>, <<14163, 29040, 3651, 26641, 1>>>>,
    <<<<17492, 4098, 19529, 7580>>, <<8852, 14054, 22762, 4362, 1>>>>,
    <<<<5481, 13315, 24411, 9475>>, <<27449, 1183, 12069, 13645, 1>>>>,
    <<<<31427, 8451, 22322, 11844, 4>>, <<26119, 9671, 23278, 25248, 1>>>>,
    <<<<15546, 13474, 30335, 23786, 8>>, <<28612, 30620, 14548, 3492, 1>>>>,
    <<<<3048, 8651, 21535, 29733, 10>>, <<2997, 5508, 18186, 12557, 1>>>>,
    <<<<28387, 2621, 2343, 20783, 1>>, <<3747, 23269, 30924, 23888, 1>>>>,
    <<<<21837, 13926, 13752, 701, 15>>, <<6437, 30927, 19327, 2642, 1>>>>,
    <<<<10913, 17408, 25382, 25452, 6>>, <<32623, 30466, 7775, 11495, 1>>>>,
    <<<<13641, 5376, 31728, 15431, 4>>, <<24395, 29891, 1527, 22561, 1>>>>,
    <<<<8526, 3360, 32118, 26028>>, <<11151, 30970, 21434, 1812, 1>>>>,
    <<<<10657, 20584, 7379, 32536, 12>>, <<30322, 22328, 26793, 10457, 1>>>>,
    <<<<13322, 17538, 9224, 7902, 8>>, <<5135, 3335, 8916, 21264, 1>>>>,
    <<<<16518, 10961, 30341, 4938, 11>>, <<15497, 18468, 5572, 1002, 1>>>>,
    <<<<28839, 21893, 21542, 30749, 1>>, <<19372, 23085, 23349, 9444, 1>>>>,
    <<<<11473, 10983, 2352, 13861, 2>>, <<32407, 4280, 29187, 19997, 1>>>>,
    <<<<19459, 6864, 5566, 16855, 7>>, <<20254, 31347, 22337, 210, 1>>>>,
    <<<<24323, 24964, 31533, 12876, 1>>, <<17126, 14608, 11538, 8455, 1>>>>,
    <<<<30404, 6629, 6649, 24288, 9>>, <<21407, 1876, 6231, 18761, 1>>>>,
    <<<<13430, 16479, 8311, 5784, 8>>, <<26759, 26921, 15980, 31643, 1>>>>,
    <<<<20681, 22587, 5194, 3615, 11>>, <<4436, 442, 5892, 7489, 1>>>>,
    <<<<17660, 11850, 31069, 29094, 13>>, <<21929, 552, 15557, 17553, 1>>>>,
    <<<<5691, 23005, 22452, 11792, 5>>, <<27412, 8882, 27638, 30133, 1>>>>,
    <<<<7653, 30762, 14032, 11466, 11>>, <<25324, 30127, 21369, 6545, 1>>>>,
    <<<<25950, 5684, 1157, 6141, 14>>, <<23463, 13083, 2136, 16374, 1>>>>,
    <<<<32438, 15297, 9638, 24060, 13>>, <<21137, 16354, 19054, 28659, 1>>>>,
    <<<<7985, 1369, 22408, 19133, 2>>, <<21403, 2029, 7813, 5624, 1>>>>,
    <<<<18174, 1711, 3434, 7533, 15>>, <<2177, 10729, 9766, 15222, 1>>>>,
    <<<<14525, 18523, 12484, 1224, 7>>, <<10914, 29795, 28591, 27219, 1>>>>,
    <<<<4982, 27961, 7802, 13053, 8>>, <<2725, 30910, 13773, 4724, 1>>>>,
    <<<<14420, 18567, 17945, 16316, 14>>, <<19790, 14061, 17217, 14097, 1>>>>,
    <<<<9833, 31401, 22431, 4011, 10>>, <<162, 25769, 29713, 25813, 1>>>>,
    <<<<26625, 31913, 9923, 10699, 10>>, <<20581, 3817, 22667, 3845, 1>>>>,
    <<<<8706, 31700, 4212, 29758>>, <<1151, 29348, 3757, 12999, 1>>>>,
    <<<<10882, 6857, 21650, 4429, 13>>, <<1438, 12109, 29273, 24440, 1>>>>,
    <<<<27281, 12477, 17627, 6864, 4>>, <<4995, 28048, 18295, 2987, 1>>>>,
    <<<<9526, 7405, 22034, 8580, 1>>, <<6244, 26868, 14677, 11926, 1>>>>,
    <<<<20099, 25640, 27542, 18917, 1>>, <<7805, 9009, 1963, 23100, 1>>>>,
    <<<<12562, 7833, 21310, 32303, 2>>, <<25358, 1534, 17611, 2149, 1>>>>,
    <<<<23894, 26175, 18445, 23995, 11>>, <<15313, 26494, 30205, 10878, 1>>>>,
    <<<<21676, 8143, 14865, 21802, 2>>, <<2758, 8542, 21373, 21790, 1>>>>,
    <<<<25835, 25569, 17482, 21818, 13>>, <<26299, 9434, 5166, 1331, 1>>>>,
    <<<<7718, 15578, 5469, 2697, 13>>, <<16490, 28177, 31033, 9855, 1>>>>,
    <<<<26032, 27664, 15028, 11563, 8>>, <<28805, 10645, 30600, 20511, 1>>>>,
    <<<<16270, 906, 5297, 7227, 7>>, <<22099, 6653, 31413, 531, 1>>>>,
    <<<<3953, 9325, 31197, 841, 5>>, <<3048, 16509, 31074, 8856, 1>>>>,
    <<<<13134, 19848, 14420, 9244, 6>>, <<12002, 4252, 6075, 19263, 1>>>>,
    <<<<16418, 24810, 18025, 27939, 15>>, <<15002, 29891, 32169, 32270, 1>>>>,
    <<<<18453, 3218, 7170, 29750, 13>>, <<5280, 6394, 11914, 7881, 1>>>>,
    <<<<6682, 20407, 25346, 12611, 1>>, <<22985, 24376, 23084, 18043, 1>>>>,
    <<<<161, 9125, 23491, 23956, 5>>, <<28731, 30470, 20663, 30746, 1>>>>,
    <<<<4196, 1607, 31066, 19068, 1>>, <<9765, 31332, 21106, 6928, 1>>>>,
    <<<<29822, 18392, 6064, 32028, 5>>, <<12206, 22781, 26383, 16852, 1>>>>,
    <<<<4509, 22991, 7580, 15459, 15>>, <<23449, 20284, 211, 29258, 1>>>>,
    <<<<15106, 30753, 641, 21950, 3>>, <<31040, 8581, 8324, 5998, 1>>>>,
    <<<<27075, 13865, 17186, 19245, 4>>, <<14224, 10727, 26789, 15689, 1>>>>,
    <<<<9267, 948, 29675, 24056, 5>>, <<9588, 21601, 8910, 27804, 1>>>>,
    <<<<22176, 29264, 18546, 19131, 11>>, <<26472, 5308, 21953, 5089, 1>>>>,
    <<<<27720, 20196, 14991, 15722, 14>>, <<322, 14828, 2865, 14554, 1>>>>,
    <<<<1882, 17054, 2355, 3269, 10>>, <<403, 26727, 19965, 26384, 1>>>>,
    <<<<25752, 6562, 5568, 10235, 4>>, <<12540, 20800, 12478, 4202, 1>>>>,
    <<<<15806, 8203, 31536, 12793, 5>>, <<15675, 9616, 31982, 13444, 1>>>>,
    <<<<11566, 10254, 14844, 24184, 2>>, <<19594, 28404, 7209, 24998, 1>>>>,
    <<<<31805, 22792, 9277, 23307, 5>>, <<28630, 5464, 29082, 3335, 1>>>>,
    <<<<6988, 3915, 3405, 4558, 15>>, <<3019, 23215, 28160, 12361, 1>>>>,
    <<<<543, 13086, 20640, 30273, 14>>, <<28350, 29018, 10624, 23644, 1>>>>,
    <<<<24915, 8178, 612, 10729, 5>>, <<25911, 18136, 23024, 2489, 1>>>>,
    <<<<14760, 10223, 8957, 21603, 2>>, <<32389, 22670, 4204, 11304, 1>>>>,
    <<<<10258, 20971, 3004, 10620, 7>>, <<24102, 28338, 5255, 22322, 1>>>>,
    <<<<2315, 29491, 18261, 18925>>, <<23256, 29999, 11476, 1663, 1>>>>,
    <<<<27470, 12287, 31019, 23656>>, <<20878, 4731, 6154, 10271, 1>>>>,
    <<<<26146, 7167, 6006, 29571, 8>>, <<17905, 22298, 32268, 21030, 1>>>>,
    <<<<28629, 29055, 32425, 18481, 15>>, <<19382, 30320, 11975, 856, 1>>>>,
    <<<<27594, 11743, 15956, 14910, 11>>, <<24228, 29708, 14969, 9262, 1>>>>,
    <<<<26301, 14679, 3561, 10446, 14>>, <<30285, 12559, 2328, 19770, 1>>>>,
    <<<<28726, 29654, 26801, 31104, 10>>, <<31216, 7849, 9647, 68, 1>>>>,
    <<<<19523, 12492, 734, 22497, 13>>, <<14444, 1620, 12059, 8277, 1>>>>,
    <<<<24404, 31999, 9109, 3545, 1>>, <<18056, 26601, 23265, 18538, 1>>>>,
    <<<<22314, 15423, 19579, 12623, 1>>, <<30762, 8675, 12698, 31365, 1>>>>,
    <<<<26234, 5543, 24525, 28369, 4>>, <<15130, 13614, 12032, 7315, 1>>>>,
    <<<<24601, 15121, 6080, 2694, 14>>, <<2528, 17018, 6848, 17336, 1>>>>,
    <<<<6175, 18902, 23984, 19751, 1>>, <<19545, 21272, 8560, 29862, 1>>>>,
    <<<<28435, 11813, 27278, 56, 11>>, <<12215, 13295, 29926, 6375, 1>>>>,
    <<<<10968, 31151, 1329, 24647, 9>>, <<7077, 235, 29216, 16161, 1>>>>,
    <<<<5518, 14363, 26238, 6232>>, <<655, 294, 11944, 28394, 1>>>>,
    <<<<32121, 784, 16399, 3895, 6>>, <<24985, 183, 15657, 5458, 1>>>>,
    <<<<7383, 25557, 12306, 21253, 11>>, <<23039, 8421, 3187, 15015, 1>>>>,
    <<<<17421, 15562, 23575, 18374, 10>>, <<4223, 2335, 28560, 26960, 1>>>>,
    <<<<19080, 22014, 6542, 19676, 12>>, <<14927, 1459, 17850, 4562, 1>>>>,
    <<<<7466, 11134, 8178, 24595, 11>>, <<10467, 18208, 5928, 13895, 1>>>>,
    <<<<25716, 30301, 2030, 22552, 10>>, <<13084, 22760, 31986, 25560, 1>>>>,
    <<<<20169, 10746, 1269, 22287, 14>>, <<8177, 22417, 19991, 3687, 1>>>>,
    <<<<8827, 21625, 26162, 11474, 6>>, <<18414, 19829, 16797, 12801, 1>>>>,
    <<<<19226, 10647, 16319, 30727, 15>>, <<31209, 210, 29189, 24193, 1>>>>,
    <<<<24304, 18942, 22487, 31492, 3>>, <<27698, 4227, 5955, 2833, 1>>>>,
    <<<<13996, 15486, 28109, 31173, 12>>, <<26430, 29860, 15635, 11733, 1>>>>,
    <<<<1111, 27550, 10560, 6199, 8>>, <<270, 29134, 27736, 22858, 1>>>>,
    <<<<25270, 17218, 18888, 3874, 1>>, <<24745, 18208, 25527, 1998, 1>>>>,
    <<<<15204, 21523, 7226, 13035, 5>>, <<30931, 14568, 15525, 10690, 1>>>>,
    <<<<10813, 10520, 841, 24486, 2>>, <<5896, 26403, 3022, 21555, 1>>>>,
    <<<<6758, 27055, 25101, 23495, 1>>, <<32357, 8309, 30561, 1183, 1>>>>,
    <<<<256, 9243, 23185, 4793, 6>>, <<15870, 18579, 30009, 9671, 1>>>>,
    <<<<24896, 19745, 4405, 22376, 15>>, <<11645, 31416, 29319, 20281, 1>>>>,
    <<<<3272, 16437, 2753, 26273, 11>>, <<7278, 31923, 6036, 388, 1>>>>,
    <<<<12282, 28738, 11633, 24649, 6>>, <<906, 7136, 7546, 8677, 1>>>>,
    <<<<31736, 11346, 22734, 14427>>, <<1133, 25304, 17624, 19038, 1>>>>,
    <<<<23286, 30567, 20225, 18034, 4>>, <<1416, 31630, 5646, 31990, 1>>>>,
    <<<<26842, 6816, 20833, 27655, 2>>, <<25461, 11576, 28105, 7705, 1>>>>,
    <<<<784, 16713, 17849, 18185, 7>>, <<31826, 22662, 10555, 17824, 1>>>>
>>

(***************************************************************************)
(* Integer logarithm helpers.  The product is formed in uint32_t.          *)
(***************************************************************************)
\* (((uint32_t) e) * mult) >> shift
MulShr32(e, mult, shift) ==
    BToInt(BShr(BMulWrap(BFromInt(e), BFromInt(mult), 32), shift))

\* pow5bits without the final + 1.
pow5bits_floor(e) == MulShr32(e, 1217359, 19)

pow5bits(e) == MulShr32(e, 1217359, 19) + 1

log10Pow2(e) == MulShr32(e, 78913, 18)

\* log10Pow5 computed with the multiplier and shift of log10Pow2.
log10Pow5_as_log10Pow2(e) == MulShr32(e, 78913, 18)

log10Pow5(e) == MulShr32(e, 732923, 20)

(***************************************************************************)
(* Division helpers (the build that is not RYU_32_BIT_PLATFORM).           *)
(***************************************************************************)
div5(x) == BDivSmall(x, 5)

div10(x) == BDivSmall(x, 10)

div100(x) == BDivSmall(x, 100)

div1e8(x) == BDivSmall(BDivSmall(x, 10000), 10000)

\* ((uint32_t) x) - k * ((uint32_t) xDivK), the idiom the source uses for
\* x % k once x / k is known; computed in uint32_t.
Mod32(x, k, xDivK) ==
    BToInt(BSubWrap(BTrunc(x, 32), BMulWrap(BFromInt(k), BTrunc(xDivK, 32), 32), 32))

m_inv_5 == <<19661, 6553, 13107, 26214, 12>>

n_div_5 == <<13107, 26214, 19660, 6553, 3>>

\* pow5Factor leaving its loop one value early: value >= n_div_5 in place
\* of value > n_div_5.
RECURSIVE pow5FactorLoop_early(_, _)
pow5FactorLoop_early(value, count) ==
    IF BIsZero(value) THEN -1
    ELSE LET next == BMulWrap(value, m_inv_5, 64)
         IN  IF BLe(n_div_5, next) THEN count
             ELSE pow5FactorLoop_early(next, count + 1)

pow5Factor_early(value) == pow5FactorLoop_early(value, 0)

\* The loop of pow5Factor.  The source asserts value != 0: with value = 0
\* the loop never ends, which is reported as a count of -1.
RECURSIVE pow5FactorLoop(_, _)
pow5FactorLoop(value, count) ==
    IF BIsZero(value) THEN -1
    ELSE LET next == BMulWrap(value, m_inv_5, 64)
         IN  IF BLt(n_div_5, next) THEN count
             ELSE pow5FactorLoop(next, count + 1)

pow5Factor(value) == pow5FactorLoop(value, 0)

multipleOfPowerOf5(value, p) == pow5Factor(value) >= p

multipleOfPowerOf2(value, p) == BIsZero(BTrunc(value, p))

(***************************************************************************)
(* 64 x 128 bit multiplication and shift (the HAS_UINT128 build).          *)
(* mul is a table entry <<mul[0], mul[1]>>: mul[1] here is mul[0] of the   *)
(* source.                                                                 *)
(***************************************************************************)
mulShift64(m, mul, j) ==
    LET b0 == BMulWrap(m, mul[1], 128)
        b2 == BMulWrap(m, mul[2], 128)
    IN  BTrunc(BShr(BAddWrap(BShr(b0, 64), b2, 128), j - 64), 64)

\* mulShiftAll64 with the lower bound taken above the value: 4m + 1 + mmShift
\* in place of 4m - 1 - mmShift.
mulShiftAll64_vm_above(m, mul, j, mmShift) ==
    LET m4 == BTrunc(BShl(m, 2), 64)
    IN  [vp |-> mulShift64(BAddWrap(m4, <<2>>, 64), mul, j),
         vm |-> mulShift64(BAddWrap(BAddWrap(m4, <<1>>, 64), BFromInt(mmShift), 64),
                           mul, j),
         vr |-> mulShift64(m4, mul, j)]

mulShiftAll64(m, mul, j, mmShift) ==
    LET m4 == BTrunc(BShl(m, 2), 64)
    IN  [vp |-> mulShift64(BAddWrap(m4, <<2>>, 64), mul, j),
         vm |-> mulShift64(BSubWrap(BSubWrap(m4, <<1>>, 64), BFromInt(mmShift), 64),
                           mul, j),
         vr |-> mulShift64(m4, mul, j)]

(***************************************************************************)
(* The same multiplication and shift in the two builds without uint128_t.  *)
(* A 128-bit product is [lo, hi]: the value returned and *productHi.       *)
(***************************************************************************)
\* x | y for x, y < 2^15
RECURSIVE OrLimb(_, _)
OrLimb(x, y) ==
    IF x = 0 THEN y
    ELSE IF y = 0 THEN x
    ELSE Max(x % 2, y % 2) + 2 * OrLimb(x \div 2, y \div 2)

\* a | b
BOr(a, b) ==
    BNorm([k \in 1..Max(Len(a), Len(b)) |-> OrLimb(Limb(a, k), Limb(b, k))])

\* (uint32_t) (x >> 32) and (uint32_t) x of a uint64_t x
Hi32(x) == BShr(x, 32)

Lo32(x) == BTrunc(x, 32)

\* Lines 155-159: _umul128, the exact product.
umul128_intrinsic(a, b) ==
    [lo |-> BTrunc(BMul(a, b), 64), hi |-> BShr(BMul(a, b), 64)]

\* Lines 162-178: __shiftright128, which takes the shift modulo 64.
shiftright128_intrinsic(lo, hi, dist) ==
    BTrunc(BShr(BAdd(BShl(hi, 64), lo), dist % 64), 64)

\* Lines 406-412 once the two products are known.
mulShift64_sum(p1, p0, j, Shift(_, _, _)) ==
    Shift(BAddWrap(p0.hi, p1.lo, 64),
          IF BLt(BAddWrap(p0.hi, p1.lo, 64), p0.hi)
          THEN BAddWrap(p1.hi, <<1>>, 64) ELSE p1.hi,
          j - 64)

\* Lines 400-413: mulShift64 of the build with intrinsics.
mulShift64_intrinsic(m, mul, j) ==
    mulShift64_sum(umul128_intrinsic(m, mul[2]), umul128_intrinsic(m, mul[1]),
                   j, shiftright128_intrinsic)

\* Lines 415-422: mulShiftAll64 of the build with intrinsics.
mulShiftAll64_intrinsic(m, mul, j, mmShift) ==
    [vp |-> mulShift64_intrinsic(
                BAddWrap(BTrunc(BShl(m, 2), 64), <<2>>, 64), mul, j),
     vm |-> mulShift64_intrinsic(
                BSubWrap(BSubWrap(BTrunc(BShl(m, 2), 64), <<1>>, 64),
                         BFromInt(mmShift), 64), mul, j),
     vr |-> mulShift64_intrinsic(BTrunc(BShl(m, 2), 64), mul, j)]

\* Lines 197-209 once the four partial products are known.
umul128_mid2(b00, b01, b11, mid1) ==
    [lo |-> BOr(BTrunc(BShl(Lo32(BAddWrap(b01, Lo32(mid1), 64)), 32), 64),
                Lo32(b00)),
     hi |-> BAddWrap(BAddWrap(b11, Hi32(mid1), 64),
                     Hi32(BAddWrap(b01, Lo32(mid1), 64)), 64)]

umul128_parts(b00, b01, b10, b11) ==
    umul128_mid2(b00, b01, b11, BAddWrap(b10, Hi32(b00), 64))

\* Lines 182-212: umul128 from four 32 x 32 bit products.
umul128(a, b) ==
    umul128_parts(BMulWrap(Lo32(a), Lo32(b), 64), BMulWrap(Lo32(a), Hi32(b), 64),
                  BMulWrap(Hi32(a), Lo32(b), 64), BMulWrap(Hi32(a), Hi32(b), 64))

\* Lines 214-221: (hi << (64 - dist)) | (lo >> dist), for the asserted
\* 0 < dist < 64.
shiftright128(lo, hi, dist) ==
    BOr(BTrunc(BShl(hi, 64 - dist), 64), BShr(lo, dist))

\* Lines 426-439: mulShift64 of the build with 64-bit operations only.
mulShift64_64(m, mul, j) ==
    mulShift64_sum(umul128(m, mul[2]), umul128(m, mul[1]), j, shiftright128)

\* x < y as 0 or 1: the carry or borrow of a wrapped sum or difference.
Less(x, y) == IF BLt(x, y) THEN <<1>> ELSE <<>>

\* Lines 455-458: *vp.
mulShiftAll64_vp2(mid, hi, mid2, dist) ==
    shiftright128(mid2, BAddWrap(hi, Less(mid2, mid), 64), dist)

mulShiftAll64_vp(lo, mid, hi, mul, dist) ==
    mulShiftAll64_vp2(mid, hi,
        BAddWrap(BAddWrap(mid, mul[2], 64),
                 Less(BAddWrap(lo, mul[1], 64), lo), 64),
        dist)

\* Lines 461-464 and 469-472: mid3 - mul[1] - borrow and hi3 - borrow,
\* shifted.
mulShiftAll64_sub2(mid, hi, mid3, dist) ==
    shiftright128(mid3, BSubWrap(hi, Less(mid, mid3), 64), dist)

mulShiftAll64_sub(lo, mid, hi, mul, dist) ==
    mulShiftAll64_sub2(mid, hi,
        BSubWrap(BSubWrap(mid, mul[2], 64),
                 Less(lo, BSubWrap(lo, mul[1], 64)), 64),
        dist)

\* Lines 466-468: lo3, mid3 and hi3, the doubled product.
mulShiftAll64_twice2(lo, mid, hi, lo3, mid3) ==
    [lo |-> lo3, mid |-> mid3,
     hi |-> BAddWrap(BAddWrap(hi, hi, 64), Less(mid3, mid), 64)]

mulShiftAll64_twice(lo, mid, hi) ==
    mulShiftAll64_twice2(lo, mid, hi, BAddWrap(lo, lo, 64),
        BAddWrap(BAddWrap(mid, mid, 64), Less(BAddWrap(lo, lo, 64), lo), 64))

\* Lines 460-473: *vm.
mulShiftAll64_vm0(t, mul, dist) == mulShiftAll64_sub(t.lo, t.mid, t.hi, mul, dist)

\* Lines 460-473 taking the branch of mmShift == 1 whatever mmShift is.
mulShiftAll64_vm_single(lo, mid, hi, mul, j, mmShift) ==
    mulShiftAll64_sub(lo, mid, hi, mul, j - 64 - 1)

mulShiftAll64_vm(lo, mid, hi, mul, j, mmShift) ==
    IF mmShift = 1 THEN mulShiftAll64_sub(lo, mid, hi, mul, j - 64 - 1)
    ELSE mulShiftAll64_vm0(mulShiftAll64_twice(lo, mid, hi), mul, j - 64)

\* Lines 455-475 once lo, mid and hi are known.
mulShiftAll64_all(lo, mid, hi, mul, j, mmShift) ==
    [vp |-> mulShiftAll64_vp(lo, mid, hi, mul, j - 64 - 1),
     vm |-> mulShiftAll64_vm(lo, mid, hi, mul, j, mmShift),
     vr |-> shiftright128(mid, hi, j - 64 - 1)]

\* Lines 449-453: lo, mid = tmp + low half, hi += mid < tmp.
mulShiftAll64_mid(p0, p1, mid, mul, j, mmShift) ==
    mulShiftAll64_all(p0.lo, mid, BAddWrap(p1.hi, Less(mid, p0.hi), 64),
                      mul, j, mmShift)

mulShiftAll64_products(p0, p1, mul, j, mmShift) ==
    mulShiftAll64_mid(p0, p1, BAddWrap(p0.hi, p1.lo, 64), mul, j, mmShift)

\* Lines 442-475: mulShiftAll64 of the build with 64-bit operations only;
\* m <<= 1 first.
mulShiftAll64_64(m, mul, j, mmShift) ==
    mulShiftAll64_products(umul128(BTrunc(BShl(m, 1), 64), mul[1]),
                           umul128(BTrunc(BShl(m, 1), 64), mul[2]),
                           mul, j, mmShift)

(***************************************************************************)
(* The compact tables of RYU_OPTIMIZE_SIZE (lines 480-649).                *)
(***************************************************************************)
\* Lines 486-502: each entry is the pair <<mul[0], mul[1]>>.
DOUBLE_POW5_INV_SPLIT2 == <<
    <<<<1>>, <<0, 0, 0, 0, 2>>>>,
    <<<<20532, 202, 9599, 5430, 5>>, <<5051, 23958, 786, 17938, 1>>>>,
    <<<<18438, 25535, 21505, 25926, 7>>, <<28661, 13342, 29027, 6463, 1>>>>,
    <<<<18286, 27308, 4596, 10497, 6>>, <<18178, 20943, 13201, 27940, 1>>>>,
    <<<<26345, 20485, 14173, 2510, 6>>, <<30585, 1528, 27907, 14202, 1>>>>,
    <<<<3193, 1981, 8189, 19085, 15>>, <<29585, 29029, 30677, 3573, 1>>>>,
    <<<<22504, 11730, 31651, 24389, 7>>, <<21680, 8024, 13842, 23468, 1>>>>,
    <<<<9194, 13128, 26534, 24223, 8>>, <<9143, 227, 27013, 10742, 1>>>>,
    <<<<25550, 5757, 26063, 16967>>, <<6028, 20329, 28500, 896, 1>>>>,
    <<<<16290, 29663, 6062, 10644, 1>>, <<13389, 26779, 28270, 19325, 1>>>>,
    <<<<13974, 22543, 8161, 28535, 10>>, <<22838, 27497, 22087, 7537, 1>>>>,
    <<<<8738, 24112, 10554, 27459, 4>>, <<23185, 31573, 316, 29602, 1>>>>,
    <<<<15775, 16701, 1051, 17925, 9>>, <<16983, 31567, 14995, 15488, 1>>>>,
    <<<<32014, 25234, 3533, 30983, 8>>, <<8370, 28080, 20501, 4568, 1>>>>,
    <<<<15749, 26856, 19972, 536, 11>>, <<10669, 16116, 20637, 25007, 1>>>>>>

\* Lines 503-508: uint32_t words, sixteen 2-bit corrections each.
POW5_INV_OFFSETS == <<
    <<17748, 10408, 1>>,
    <<21829, 2058>>,
    <<4096, 8200>>,
    <<1044, 128>>,
    <<0, 2, 1>>,
    <<21845, 554, 1>>,
    <<1108>>,
    <<68, 2>>,
    <<0, 0, 1>>,
    <<65, 2048, 1>>,
    <<17488, 8330, 1>>,
    <<84, 10922, 1>>,
    <<21844, 8906, 1>>,
    <<16384, 0, 1>>,
    <<1, 512>>,
    <<1280, 2>>,
    <<21521, 8866, 1>>,
    <<21844, 2730>>,
    <<>>>>

\* Lines 510-524: each entry is the pair <<mul[0], mul[1]>>.
DOUBLE_POW5_SPLIT2 == <<
    <<<<>>, <<0, 0, 0, 0, 1>>>>,
    <<<<>>, <<13497, 25606, 21212, 9583, 1>>>>,
    <<<<23312, 26165, 18466, 29348>>, <<12301, 11002, 7250, 21970, 1>>>>,
    <<<<2150, 6942, 13465, 28213, 6>>, <<6389, 2943, 24458, 2605, 1>>>>,
    <<<<5834, 31499, 30280, 22765, 14>>, <<8700, 16433, 16241, 12951, 1>>>>,
    <<<<4668, 17757, 24620, 9741, 11>>, <<7555, 13915, 2069, 26323, 1>>>>,
    <<<<19504, 7932, 11578, 23956, 5>>, <<29718, 16037, 23086, 5418, 1>>>>,
    <<<<21755, 27909, 13581, 1111, 15>>, <<26511, 25587, 5204, 16587, 1>>>>,
    <<<<29008, 13111, 19755, 10096, 11>>, <<19496, 19936, 1562, 31022, 1>>>>,
    <<<<24323, 24964, 31533, 12876, 1>>, <<17126, 14608, 11538, 8455, 1>>>>,
    <<<<26032, 27664, 15028, 11563, 8>>, <<28805, 10645, 30600, 20511, 1>>>>,
    <<<<2315, 29491, 18261, 18925>>, <<23256, 29999, 11476, 1663, 1>>>>,
    <<<<13996, 15486, 28109, 31173, 12>>, <<26430, 29860, 15635, 11733, 1>>>>>>

\* Lines 525-530: uint32_t words, sixteen 2-bit corrections each.
POW5_OFFSETS == <<
    <<>>,
    <<>>,
    <<>>,
    <<>>,
    <<0, 0, 1>>,
    <<22933, 13010, 1>>,
    <<21845, 10920, 1>>,
    <<21781, 11434, 1>>,
    <<1284, 554, 1>>,
    <<21520, 170, 1>>,
    <<20805, 2218, 1>>,
    <<17728, 2208, 1>>,
    <<21840, 2730, 1>>,
    <<16384, 0, 1>>,
    <<1088, 11400, 2>>,
    <<21861, 10924, 1>>,
    <<16453, 10378, 1>>,
    <<16721, 42, 1>>,
    <<4437, 10923, 1>>,
    <<21845, 8832, 1>>,
    <<261>>>>

\* Line 532.
POW5_TABLE_SIZE == 26

\* Lines 533-540: 5^0 .. 5^25.
DOUBLE_POW5_TABLE == <<
    <<1>>,
    <<5>>,
    <<25>>,
    <<125>>,
    <<625>>,
    <<3125>>,
    <<15625>>,
    <<12589, 2>>,
    <<30177, 11>>,
    <<19813, 59>>,
    <<761, 298>>,
    <<3805, 1490>>,
    <<19025, 7450>>,
    <<29589, 4484, 1>>,
    <<16873, 22424, 5>>,
    <<18829, 13818, 28>>,
    <<28609, 3556, 142>>,
    <<11973, 17784, 710>>,
    <<27097, 23385, 3552>>,
    <<4413, 18625, 17763>>,
    <<22065, 27589, 23281, 2>>,
    <<12021, 6876, 18105, 13>>,
    <<27337, 1613, 24990, 67>>,
    <<5613, 8069, 26646, 338>>,
    <<28065, 7577, 2159, 1694>>,
    <<9253, 5121, 10796, 8470>>>>

\* table[k], read as the C code reads it: inside the table when k < its
\* size.
Inside(table, k) == k >= 0 /\ k < Len(table)

\* The uint32_t words a read of offsets[k] can yield: the word stored there,
\* or, outside the table (undefined behaviour), whatever the build finds in
\* memory.  Only one 2-bit field of the word is used, so four words, one per
\* value of every field, stand for all of them.
AnyWord ==
    {<<>>, <<21845, 10922, 1>>, <<10922, 21845, 2>>, <<32767, 32767, 3>>}

ReadWord(offsets, k) == IF Inside(offsets, k) THEN {offsets[k + 1]} ELSE AnyWord

\* (word >> ((i % 16) << 1)) & 3
OffsetBits(word, i) == BToInt(BTrunc(BShr(word, (i % 16) * 2), 2))

\* The pair <<result[0], result[1]>> of a uint128_t shiftedSum.
Limbs64(shiftedSum) == <<BTrunc(shiftedSum, 64), BShr(shiftedSum, 64)>>

\* Lines 559-562: (b0 >> delta) + (b2 << (64 - delta)) + bits in uint128_t.
shiftedSum128(b0, b2, delta, bits) ==
    BAddWrap(BAddWrap(BShr(b0, delta), BTrunc(BShl(b2, 64 - delta), 128), 128),
             BFromInt(bits), 128)

\* Lines 607-616 and 637-647: the sum of the partial products, the carry
\* into high1, and the two shifted limbs, in uint64_t.
shiftedSum64(p1, p0, delta, bits) ==
    <<BAddWrap(shiftright128(p0.lo, BAddWrap(p0.hi, p1.lo, 64), delta),
               BFromInt(bits), 64),
      shiftright128(BAddWrap(p0.hi, p1.lo, 64),
                    IF BLt(BAddWrap(p0.hi, p1.lo, 64), p0.hi)
                    THEN BAddWrap(p1.hi, <<1>>, 64) ELSE p1.hi,
                    delta)>>

\* Lines 547-549: base, base2 and offset of double_computePow5.
Pow5Base(i) == i \div POW5_TABLE_SIZE
Pow5Base2(i) == Pow5Base(i) * POW5_TABLE_SIZE
Pow5Offset(i) == i - Pow5Base2(i)

\* Lines 570-572: base, base2 and offset of double_computeInvPow5.
InvPow5Base(i) == (i + POW5_TABLE_SIZE - 1) \div POW5_TABLE_SIZE
InvPow5Base2(i) == InvPow5Base(i) * POW5_TABLE_SIZE
InvPow5Offset(i) == InvPow5Base2(i) - i

\* Lines 545-565 after the early return: m = DOUBLE_POW5_TABLE[offset],
\* delta = pow5bits(i) - pow5bits(base2), bits the 2-bit correction.
double_computePow5_from(mul, m, delta, bits) ==
    Limbs64(shiftedSum128(BMulWrap(m, mul[1], 128), BMulWrap(m, mul[2], 128),
                          delta, bits))

\* double_computePow5 without the correction of POW5_OFFSETS.
double_computePow5_uncorrected(i, word) ==
    IF Pow5Offset(i) = 0
    THEN DOUBLE_POW5_SPLIT2[Pow5Base(i) + 1]
    ELSE double_computePow5_from(DOUBLE_POW5_SPLIT2[Pow5Base(i) + 1],
                                 DOUBLE_POW5_TABLE[Pow5Offset(i) + 1],
                                 pow5bits(i) - pow5bits(Pow5Base2(i)), 0)

\* Lines 545-565: double_computePow5 of the build with uint128_t; word is
\* what the read of POW5_OFFSETS[i / 16] yields.
double_computePow5(i, word) ==
    IF Pow5Offset(i) = 0
    THEN DOUBLE_POW5_SPLIT2[Pow5Base(i) + 1]
    ELSE double_computePow5_from(DOUBLE_POW5_SPLIT2[Pow5Base(i) + 1],
                                 DOUBLE_POW5_TABLE[Pow5Offset(i) + 1],
                                 pow5bits(i) - pow5bits(Pow5Base2(i)),
                                 OffsetBits(word, i))

\* Lines 567-587 after the early return.
double_computeInvPow5_from(mul, m, delta, bits) ==
    Limbs64(shiftedSum128(BMulWrap(m, BSubWrap(mul[1], <<1>>, 64), 128),
                          BMulWrap(m, mul[2], 128), delta, 1 + bits))

\* Lines 567-587: double_computeInvPow5 of the build with uint128_t; word
\* is what the read of POW5_INV_OFFSETS[i / 16] yields.
double_computeInvPow5(i, word) ==
    IF InvPow5Offset(i) = 0
    THEN DOUBLE_POW5_INV_SPLIT2[InvPow5Base(i) + 1]
    ELSE double_computeInvPow5_from(DOUBLE_POW5_INV_SPLIT2[InvPow5Base(i) + 1],
                                    DOUBLE_POW5_TABLE[InvPow5Offset(i) + 1],
                                    pow5bits(InvPow5Base2(i)) - pow5bits(i),
                                    OffsetBits(word, i))

\* Lines 592-617: double_computePow5 of the builds without uint128_t.
double_computePow5_64_from(mul, m, delta, bits) ==
    shiftedSum64(umul128(m, mul[2]), umul128(m, mul[1]), delta, bits)

double_computePow5_64(i, word) ==
    IF Pow5Offset(i) = 0
    THEN DOUBLE_POW5_SPLIT2[Pow5Base(i) + 1]
    ELSE double_computePow5_64_from(DOUBLE_POW5_SPLIT2[Pow5Base(i) + 1],
                                    DOUBLE_POW5_TABLE[Pow5Offset(i) + 1],
                                    pow5bits(i) - pow5bits(Pow5Base2(i)),
                                    OffsetBits(word, i))

\* Lines 621-648: double_computeInvPow5 of the builds without uint128_t.
double_computeInvPow5_64_from(mul, m, delta, bits) ==
    shiftedSum64(umul128(m, mul[2]),
                 umul128(m, BSubWrap(mul[1], <<1>>, 64)), delta, 1 + bits)

double_computeInvPow5_64(i, word) ==
    IF InvPow5Offset(i) = 0
    THEN DOUBLE_POW5_INV_SPLIT2[InvPow5Base(i) + 1]
    ELSE double_computeInvPow5_64_from(
             DOUBLE_POW5_INV_SPLIT2[InvPow5Base(i) + 1],
             DOUBLE_POW5_TABLE[InvPow5Offset(i) + 1],
             pow5bits(InvPow5Base2(i)) - pow5bits(i), OffsetBits(word, i))

\* Every table read of double_computePow5(i) is inside its table: the
\* anchor, and after the early return the power and the offset word.
double_computePow5_inside(i) ==
    /\ Inside(DOUBLE_POW5_SPLIT2, Pow5Base(i))
    /\ Pow5Offset(i) # 0 =>
           /\ Inside(DOUBLE_POW5_TABLE, Pow5Offset(i))
           /\ Inside(POW5_OFFSETS, i \div 16)

\* The same for double_computeInvPow5(i).
double_computeInvPow5_inside(i) ==
    /\ Inside(DOUBLE_POW5_INV_SPLIT2, InvPow5Base(i))
    /\ InvPow5Offset(i) # 0 =>
           /\ Inside(DOUBLE_POW5_TABLE, InvPow5Offset(i))
           /\ Inside(POW5_INV_OFFSETS, i \div 16)

RECURSIVE BPow10(_)
BPow10(n) == IF n = 0 THEN <<1>> ELSE BMulSmall(BPow10(n - 1), 10)

Pow10Tab == [n \in 0..17 |-> BPow10(n)]

\* The cascade of comparisons of decimalLength17, from v >= 10^16 (17) down
\* to v >= 10 (2), else 1.  The asserted v < 10^17 is not enforced by the
\* code: a longer v also yields 17.
RECURSIVE decimalLength17From(_, _)
decimalLength17From(v, n) ==
    IF n = 1 THEN 1
    ELSE IF BLe(Pow10Tab[n - 1], v) THEN n
    ELSE decimalLength17From(v, n - 1)

decimalLength17(v) == decimalLength17From(v, 17)

(***************************************************************************)
(* d2d                                                                     *)
(***************************************************************************)
BTestBit(a, n) == BModSmall(BShr(a, n), 2) = 1

\* a | (1 << n)
BSetBit(a, n) == IF BTestBit(a, n) THEN a ELSE BAdd(a, BPow2(n))

BoolToInt(b) == IF b THEN 1 ELSE 0

\* Step 1 of d2d: e2 and m2 (lines 1377-1384).
d2d_e2(ieeeExponent) ==
    IF ieeeExponent = 0
    THEN 1 - DOUBLE_BIAS - DOUBLE_MANTISSA_BITS - 2
    ELSE ieeeExponent - DOUBLE_BIAS - DOUBLE_MANTISSA_BITS - 2

\* d2d_m2 with the implicit bit one position too high.
d2d_m2_bit53(ieeeMantissa, ieeeExponent) ==
    IF ieeeExponent = 0
    THEN ieeeMantissa
    ELSE BSetBit(ieeeMantissa, DOUBLE_MANTISSA_BITS + 1)

\* Line 1383 without the implicit bit: m2 = ieeeMantissa for every double.
d2d_m2_raw(ieeeMantissa, ieeeExponent) == ieeeMantissa

d2d_m2(ieeeMantissa, ieeeExponent) ==
    IF ieeeExponent = 0
    THEN ieeeMantissa
    ELSE BSetBit(ieeeMantissa, DOUBLE_MANTISSA_BITS)

\* mmShift taken as 1 for every double.
d2d_mmShift_always(ieeeMantissa, ieeeExponent) == 1

d2d_mmShift(ieeeMantissa, ieeeExponent) ==
    BoolToInt(~BIsZero(ieeeMantissa) \/ ieeeExponent <= 1)

\* Line 1409: the index q of DOUBLE_POW5_INV_SPLIT, for e2 >= 0.
d2d_q(e2) == log10Pow2(e2) - BoolToInt(e2 > 3)

\* Lines 1444-1446: q and the index i of DOUBLE_POW5_SPLIT, for e2 < 0.
d2d_q_neg(e2) == log10Pow5(-e2) - BoolToInt(-e2 > 1)

d2d_i(e2) == -e2 - d2d_q_neg(e2)

\* Steps 2 and 3 of d2d: the interval triple, e10 and the trailing-zero
\* flags (lines 1385-1486).
d2d_step3(ieeeMantissa, ieeeExponent) ==
    LET e2 == d2d_e2(ieeeExponent)
        m2 == d2d_m2(ieeeMantissa, ieeeExponent)
        acceptBounds == BIsEven(m2)
        mv == BTrunc(BShl(m2, 2), 64)
        mmShift == d2d_mmShift(ieeeMantissa, ieeeExponent)
        mm == BSubWrap(BSubWrap(mv, <<1>>, 64), BFromInt(mmShift), 64)
        mp == BAddWrap(mv, <<2>>, 64)
    IN  IF e2 >= 0
        THEN LET q == d2d_q(e2)
                 k == DOUBLE_POW5_INV_BITCOUNT + pow5bits(q) - 1
                 i == -e2 + q + k
                 t == mulShiftAll64(m2, DOUBLE_POW5_INV_SPLIT[q + 1], i, mmShift)
                 mvMod5 == Mod32(mv, 5, div5(mv))
             IN  [vr |-> t.vr,
                  vp |-> IF q <= 21 /\ mvMod5 # 0 /\ ~acceptBounds
                         THEN BSubWrap(t.vp,
                                  BFromInt(BoolToInt(multipleOfPowerOf5(mp, q))), 64)
                         ELSE t.vp,
                  vm |-> t.vm,
                  e10 |-> q,
                  vmIsTrailingZeros |->
                      q <= 21 /\ mvMod5 # 0 /\ acceptBounds
                      /\ multipleOfPowerOf5(mm, q),
                  vrIsTrailingZeros |->
                      q <= 21 /\ mvMod5 = 0 /\ multipleOfPowerOf5(mv, q),
                  acceptBounds |-> acceptBounds,
                  e2 |-> e2, q |-> q, index |-> q, shift |-> i,
                  mmShift |-> mmShift]
        ELSE LET q == d2d_q_neg(e2)
                 i == d2d_i(e2)
                 k == pow5bits(i) - DOUBLE_POW5_BITCOUNT
                 j == q - k
                 t == mulShiftAll64(m2, DOUBLE_POW5_SPLIT[i + 1], j, mmShift)
             IN  [vr |-> t.vr,
                  vp |-> IF q <= 1 /\ ~acceptBounds
                         THEN BSubWrap(t.vp, <<1>>, 64)
                         ELSE t.vp,
                  vm |-> t.vm,
                  e10 |-> q + e2,
                  vmIsTrailingZeros |-> q <= 1 /\ acceptBounds /\ mmShift = 1,
                  vrIsTrailingZeros |->
                      IF q <= 1 THEN TRUE
                      ELSE IF q < 63 THEN multipleOfPowerOf2(mv, q)
                      ELSE FALSE,
                  acceptBounds |-> acceptBounds,
                  e2 |-> e2, q |-> q, index |-> i, shift |-> j,
                  mmShift |-> mmShift]

\* The arguments of the call of mulShiftAll64 that d2d makes (lines
\* 1413-1419 and 1449-1455); s is the record of d2d_step3.
d2d_call(s, m2) ==
    [m |-> m2,
     mul |-> IF s.e2 >= 0 THEN DOUBLE_POW5_INV_SPLIT[s.index + 1]
             ELSE DOUBLE_POW5_SPLIT[s.index + 1],
     j |-> s.shift,
     mmShift |-> s.mmShift]

(***************************************************************************)
(* The assertions of the conversion, as conditions on the arguments of     *)
(* the call that makes them.                                               *)
(***************************************************************************)
\* Lines 73-74.
pow5bits_asserts(e) == e >= 0 /\ e <= 3528

\* Lines 82-83.
log10Pow2_asserts(e) == e >= 0 /\ e <= 1650

\* Lines 91-92.
log10Pow5_asserts(e) == e >= 0 /\ e <= 2620

\* Line 318, in every turn of the loop: the loop reports a value of 0 as -1.
pow5Factor_asserts(value) == pow5Factor(value) # -1

\* Lines 335-336.
multipleOfPowerOf2_asserts(value, p) == ~BIsZero(value) /\ p < 64

\* Lines 218-219 (and line 176 of the build with intrinsics).
shiftright128_asserts(dist) == dist < 64 /\ dist > 0

\* Line 1344.
decimalLength17_asserts(v) == BLt(v, Pow10Tab[17])

\* The calls of shiftright128 in the builds without uint128_t: line 412
\* (mulShift64, made three times by the mulShiftAll64 of lines 415-422) and
\* lines 458, 464, 472 and 475 (the mulShiftAll64 of 64-bit operations).
mulShiftAll64_asserts(j, mmShift) ==
    /\ shiftright128_asserts(j - 64)
    /\ shiftright128_asserts(j - 64 - 1)
    /\ mmShift # 1 => shiftright128_asserts(j - 64)

\* The assertions met by d2d in steps 2 and 3 (lines 1405-1485); s is the
\* record of d2d_step3 and m2 the binary mantissa.
d2d_asserts(s, m2) ==
    IF s.e2 >= 0
    THEN /\ log10Pow2_asserts(s.e2)
         /\ pow5bits_asserts(s.q)
         /\ mulShiftAll64_asserts(s.shift, s.mmShift)
         /\ s.q <= 21 =>
                IF Mod32(BShl(m2, 2), 5, div5(BShl(m2, 2))) = 0
                THEN pow5Factor_asserts(BShl(m2, 2))
                ELSE IF s.acceptBounds
                THEN pow5Factor_asserts(
                         BSub(BShl(m2, 2), BFromInt(1 + s.mmShift)))
                ELSE pow5Factor_asserts(BAdd(BShl(m2, 2), <<2>>))
    ELSE /\ log10Pow5_asserts(-s.e2)
         /\ pow5bits_asserts(s.index)
         /\ mulShiftAll64_asserts(s.shift, s.mmShift)
         /\ (s.q > 1 /\ s.q < 63) => multipleOfPowerOf2_asserts(BShl(m2, 2), s.q)

\* Lines 1503-1507: the loop goes on unless vpDiv10 <= vmDiv10.  The first
\* loop of the general path and the loop of the common path share the test.
d2d_loop_test(s) == ~BLe(div10(s.vp), div10(s.vm))

\* Lines 1508-1518: one pass of the first loop of the general path.
d2d_general_loop1_body(s) ==
    LET vmDiv10 == div10(s.vm)
        vmMod10 == Mod32(s.vm, 10, vmDiv10)
        vrDiv10 == div10(s.vr)
        vrMod10 == Mod32(s.vr, 10, vrDiv10)
    IN  [s EXCEPT !.vmIsTrailingZeros = @ /\ vmMod10 = 0,
                  !.vrIsTrailingZeros = @ /\ s.lastRemovedDigit = 0,
                  !.lastRemovedDigit = vrMod10 % 256,
                  !.vr = vrDiv10,
                  !.vp = div10(s.vp),
                  !.vm = vmDiv10,
                  !.removed = @ + 1]

\* The first loop of the general path (lines 1502-1519).
RECURSIVE d2d_general_loop1(_)
d2d_general_loop1(s) ==
    IF d2d_loop_test(s)
    THEN d2d_general_loop1(d2d_general_loop1_body(s))
    ELSE s

\* Lines 1527-1531: the second loop goes on while vmMod10 == 0.
d2d_general_loop2_test(s) == Mod32(s.vm, 10, div10(s.vm)) = 0

\* A pass of the second loop that removes nothing: the locals stay as they
\* are and the test of the loop holds again.
d2d_general_loop2_body_stuck(s) == s

\* Lines 1532-1541: one pass of the second loop of the general path.
d2d_general_loop2_body(s) ==
    LET vrDiv10 == div10(s.vr)
        vrMod10 == Mod32(s.vr, 10, vrDiv10)
    IN  [s EXCEPT !.vrIsTrailingZeros = @ /\ s.lastRemovedDigit = 0,
                  !.lastRemovedDigit = vrMod10 % 256,
                  !.vr = vrDiv10,
                  !.vp = div10(s.vp),
                  !.vm = div10(s.vm),
                  !.removed = @ + 1]

\* The second loop of the general path (lines 1525-1541).  With vm = 0 the
\* loop of the source never ends: s.diverges records it.
RECURSIVE d2d_general_loop2(_)
d2d_general_loop2(s) ==
    IF ~d2d_general_loop2_test(s) THEN s
    ELSE IF BIsZero(s.vm) THEN [s EXCEPT !.diverges = TRUE]
    ELSE d2d_general_loop2(d2d_general_loop2_body(s))

\* Lines 1525-1544: the second loop runs only when vmIsTrailingZeros.
d2d_general_vm(s) ==
    IF s.vmIsTrailingZeros THEN d2d_general_loop2(s) ELSE s

\* Lines 1550-1553: round even if the exact number is .....50..0.
d2d_general_round(s) ==
    IF s.vrIsTrailingZeros /\ s.lastRemovedDigit = 5 /\ BIsEven(s.vr)
    THEN [s EXCEPT !.lastRemovedDigit = 4]
    ELSE s

\* Lines 1555-1556: vr + 1 if vr is outside bounds or we need to round up.
d2d_general_output(s) ==
    [s EXCEPT !.output =
        BAddWrap(s.vr,
                 BFromInt(BoolToInt(
                     (s.vr = s.vm /\ (~s.acceptBounds \/ ~s.vmIsTrailingZeros))
                     \/ s.lastRemovedDigit >= 5)),
                 64)]

\* The general path of step 4 (lines 1500-1556).
d2d_general(s) ==
    d2d_general_output(d2d_general_round(d2d_general_vm(d2d_general_loop1(s))))

\* The two-digit shortcut rounding on the last digit alone: vr % 10 >= 5.
d2d_common_two_last_digit(s) ==
    LET vpDiv100 == div100(s.vp)
        vmDiv100 == div100(s.vm)
    IN  IF BLt(vmDiv100, vpDiv100)
        THEN LET vrDiv100 == div100(s.vr)
                 vrMod10 == Mod32(s.vr, 10, div10(s.vr))
             IN  [s EXCEPT !.roundUp = vrMod10 >= 5,
                           !.vr = vrDiv100,
                           !.vp = vpDiv100,
                           !.vm = vmDiv100,
                           !.removed = @ + 2]
        ELSE s

\* The two-digit shortcut of the common path (lines 1560-1571).
d2d_common_two(s) ==
    LET vpDiv100 == div100(s.vp)
        vmDiv100 == div100(s.vm)
    IN  IF BLt(vmDiv100, vpDiv100)
        THEN LET vrDiv100 == div100(s.vr)
                 vrMod100 == Mod32(s.vr, 100, vrDiv100)
             IN  [s EXCEPT !.roundUp = vrMod100 >= 50,
                           !.vr = vrDiv100,
                           !.vp = vpDiv100,
                           !.vm = vmDiv100,
                           !.removed = @ + 2]
        ELSE s

\* The common path with its loop left out: no digit is removed one by one.
d2d_common_loop_skipped(s) == s

\* Lines 1583-1590: one pass of the loop of the common path.
d2d_common_loop_body(s) ==
    LET vrDiv10 == div10(s.vr)
        vrMod10 == Mod32(s.vr, 10, vrDiv10)
    IN  [s EXCEPT !.roundUp = vrMod10 >= 5,
                  !.vr = vrDiv10,
                  !.vp = div10(s.vp),
                  !.vm = div10(s.vm),
                  !.removed = @ + 1]

\* The loop of the common path (lines 1577-1591).
RECURSIVE d2d_common_loop(_)
d2d_common_loop(s) ==
    IF d2d_loop_test(s)
    THEN d2d_common_loop(d2d_common_loop_body(s))
    ELSE s

\* Line 1599 without roundUp: the removed digits are cut off, not rounded.
d2d_common_output_truncating(s) ==
    [s EXCEPT !.output = BAddWrap(s.vr, BFromInt(BoolToInt(s.vr = s.vm)), 64)]

\* Line 1599: output = vr + (vr == vm || roundUp).
d2d_common_output(s) ==
    [s EXCEPT !.output =
        BAddWrap(s.vr, BFromInt(BoolToInt(s.vr = s.vm \/ s.roundUp)), 64)]

\* The common path removing no digit at all.
d2d_common_no_removal(s) == d2d_common_output(s)

\* The common path of step 4 (lines 1557-1600).
d2d_common(s) == d2d_common_output(d2d_common_loop(d2d_common_two(s)))

\* The locals of step 4 at its start (lines 1496-1498), with the values
\* step 3 hands over.
d2d_step4_init(t) ==
    [vr |-> t.vr, vp |-> t.vp, vm |-> t.vm,
     vmIsTrailingZeros |-> t.vmIsTrailingZeros,
     vrIsTrailingZeros |-> t.vrIsTrailingZeros,
     acceptBounds |-> t.acceptBounds, e10 |-> t.e10,
     removed |-> 0, lastRemovedDigit |-> 0, roundUp |-> FALSE,
     output |-> <<>>, diverges |-> FALSE,
     general |-> t.vmIsTrailingZeros \/ t.vrIsTrailingZeros]

\* Line 1500: the choice between the general and the common path.
d2d_remove(s) == IF s.general THEN d2d_general(s) ELSE d2d_common(s)

\* Step 4 of d2d from the result of step 3.
d2d_step4(t) == d2d_remove(d2d_step4_init(t))

\* Lines 1601-1612 with the removed digits not counted in the exponent.
d2d_result_e10(s) == [mantissa |-> s.output, exponent |-> s.e10]

\* Lines 1601-1612: exp = e10 + removed and the value returned.
d2d_result(s) == [mantissa |-> s.output, exponent |-> s.e10 + s.removed]

\* floating_decimal_64 d2d(ieeeMantissa, ieeeExponent)
d2d(ieeeMantissa, ieeeExponent) ==
    d2d_result(d2d_step4(d2d_step3(ieeeMantissa, ieeeExponent)))

(***************************************************************************)
(* Characters and character buffers.  A char is a one-character string,    *)
(* the terminator '\0' is the empty string, and a char array of n cells is *)
(* a sequence of length n whose element i + 1 is cell i of the source.     *)
(* A cell that was never written holds Uninit.                             *)
(***************************************************************************)
NUL == ""

Uninit == "?"

DigitChars == <<"0", "1", "2", "3", "4", "5", "6", "7", "8", "9">>

\* (char) ('0' + d)
DigitChar(d) == DigitChars[d + 1]

\* DIGIT_TABLE[k], k in 0..199: the two characters of every number 00..99.
DIGIT_TABLE ==
    [k \in 0..199 |->
        IF k % 2 = 0 THEN DigitChar((k \div 2) \div 10)
        ELSE DigitChar((k \div 2) % 10)]

\* result[pos] = ch
Put(result, pos, ch) == [result EXCEPT ![pos + 1] = ch]

\* memcpy(result + pos, DIGIT_TABLE + off, 2)
PutDigits2(result, pos, off) ==
    [result EXCEPT ![pos + 1] = DIGIT_TABLE[off], ![pos + 2] = DIGIT_TABLE[off + 1]]

\* memcpy(result + pos, str, Len(str))
PutStr(result, pos, str) ==
    [k \in 1..Len(result) |->
        IF k > pos /\ k <= pos + Len(str) THEN str[k - pos] ELSE result[k]]

(***************************************************************************)
(* copy_special_str (lines 96-112).  The arguments are the C bools that    *)
(* the call converts ieeeSign, ieeeExponent and ieeeMantissa to.           *)
(***************************************************************************)
\* copy_special_str with the sign written before NaN as well.
copy_special_str_signed(result, sign, exponent, mantissa) ==
    [result |->
        PutStr(IF sign THEN Put(result, 0, "-") ELSE result, BoolToInt(sign),
               IF mantissa THEN <<"N", "a", "N">>
               ELSE IF exponent THEN <<"I", "n", "f", "i", "n", "i", "t", "y">>
               ELSE <<"0", "E", "0">>),
     index |-> BoolToInt(sign)
               + (IF mantissa THEN 3 ELSE IF exponent THEN 8 ELSE 3)]

copy_special_str(result, sign, exponent, mantissa) ==
    LET s == BoolToInt(sign)
        r0 == IF sign THEN Put(result, 0, "-") ELSE result
    IN  IF mantissa
        THEN [result |-> PutStr(result, 0, <<"N", "a", "N">>), index |-> 3]
        ELSE IF exponent
        THEN [result |-> PutStr(r0, s, <<"I", "n", "f", "i", "n", "i", "t", "y">>),
              index |-> s + 8]
        ELSE [result |-> PutStr(r0, s, <<"0", "E", "0">>), index |-> s + 3]

(***************************************************************************)
(* to_chars (lines 1615-1724).                                             *)
(***************************************************************************)
\* In the operators below base is index + olength, the cell after the last
\* mantissa character (counting the decimal dot), and index0 the cell of
\* the first digit.

\* Lines 1646-1664 once q = div1e8(output) and output2 = output mod 10^8
\* are known: the eight low digits.
to_chars_put8(result, q, low8, base) ==
    [result |->
        PutDigits2(PutDigits2(PutDigits2(PutDigits2(result,
            base - 1, ((low8 % 10000) % 100) * 2),
            base - 3, ((low8 % 10000) \div 100) * 2),
            base - 5, (((low8 \div 10000) % 10000) % 100) * 2),
            base - 7, (((low8 \div 10000) % 10000) \div 100) * 2),
     output |-> q,
     i |-> 8]

to_chars_div8(result, q, output, base) ==
    to_chars_put8(result, q, Mod32(output, 100000000, q), base)

\* Lines 1646-1664: if ((output >> 32) != 0) { ... }
to_chars_wide(result, output, base) ==
    IF ~BIsZero(BShr(output, 32))
    THEN to_chars_div8(result, div1e8(output), output, base)
    ELSE [result |-> result, output |-> output, i |-> 0]

\* Lines 1666-1678: while (output2 >= 10000) { ... }
RECURSIVE to_chars_loop(_, _, _, _)
to_chars_loop(result, output2, i, base) ==
    IF BLt(output2, <<10000>>)
    THEN [result |-> result, output2 |-> BToInt(output2), i |-> i]
    ELSE to_chars_loop(
             PutDigits2(PutDigits2(result,
                 base - i - 1, (BModSmall(output2, 10000) % 100) * 2),
                 base - i - 3, (BModSmall(output2, 10000) \div 100) * 2),
             BDivSmall(output2, 10000), i + 4, base)

\* Line 1665: uint32_t output2 = (uint32_t) output, then the loop.
to_chars_low(w, base) == to_chars_loop(w.result, BTrunc(w.output, 32), w.i, base)

\* Lines 1679-1684: if (output2 >= 100) { ... }
to_chars_hundreds(l, base) ==
    IF l.output2 >= 100
    THEN [result |-> PutDigits2(l.result, base - l.i - 1, (l.output2 % 100) * 2),
          output2 |-> l.output2 \div 100,
          i |-> l.i + 2]
    ELSE l

\* Lines 1685-1693: the first digit, or the first two around the dot.
to_chars_first(l, base, index0) ==
    IF l.output2 >= 10
    THEN Put(Put(l.result, base - l.i, DIGIT_TABLE[l.output2 * 2 + 1]),
             index0, DIGIT_TABLE[l.output2 * 2])
    ELSE Put(l.result, index0, DigitChar(l.output2))

\* Lines 1696-1701: the decimal point.
to_chars_point(result, index0, olength) ==
    IF olength > 1
    THEN [result |-> Put(result, index0 + 1, "."), index |-> index0 + olength + 1]
    ELSE [result |-> result, index |-> index0 + 1]

\* Lines 1711-1721 without the one-digit case: an exponent below 10 is
\* written with a leading zero.
to_chars_exp_digits_padded(result, index, exp) ==
    IF exp >= 100
    THEN [result |-> Put(PutDigits2(result, index, 2 * (exp \div 10)),
                         index + 2, DigitChar(exp % 10)),
          index |-> index + 3]
    ELSE [result |-> PutDigits2(result, index, 2 * exp), index |-> index + 2]

\* Lines 1711-1721: the digits of exp >= 0.
to_chars_exp_digits(result, index, exp) ==
    IF exp >= 100
    THEN [result |-> Put(PutDigits2(result, index, 2 * (exp \div 10)),
                         index + 2, DigitChar(exp % 10)),
          index |-> index + 3]
    ELSE IF exp >= 10
    THEN [result |-> PutDigits2(result, index, 2 * exp), index |-> index + 2]
    ELSE [result |-> Put(result, index, DigitChar(exp)), index |-> index + 1]

\* Lines 1704-1721 without the sign of the exponent.
to_chars_exponent_unsigned(r, exp) ==
    to_chars_exp_digits(Put(r.result, r.index, "E"), r.index + 1,
                        IF exp < 0 THEN -exp ELSE exp)

\* Lines 1704-1721: 'E', the sign of the exponent and its digits.
to_chars_exponent(r, exp) ==
    IF exp < 0
    THEN to_chars_exp_digits(Put(Put(r.result, r.index, "E"), r.index + 1, "-"),
                             r.index + 2, -exp)
    ELSE to_chars_exp_digits(Put(r.result, r.index, "E"), r.index + 1, exp)

to_chars_from(v, index0, result, olength) ==
    to_chars_exponent(
        to_chars_point(
            to_chars_first(
                to_chars_hundreds(
                    to_chars_low(
                        to_chars_wide(result, v.mantissa, index0 + olength),
                        index0 + olength),
                    index0 + olength),
                index0 + olength, index0),
            index0, olength),
        v.exponent + olength - 1)

to_chars(v, sign, result) ==
    to_chars_from(v, BoolToInt(sign),
                  IF sign THEN Put(result, 0, "-") ELSE result,
                  decimalLength17(v.mantissa))

\* d2d_small_int without the test of the fraction (lines 1746-1750): every
\* double of the range 1 <= f < 2^53 is accepted.
d2d_small_int_any_fraction(ieeeMantissa, ieeeExponent) ==
    LET m2 == BSetBit(ieeeMantissa, DOUBLE_MANTISSA_BITS)
        e2 == ieeeExponent - DOUBLE_BIAS - DOUBLE_MANTISSA_BITS
        none == [mantissa |-> <<>>, exponent |-> 0]
    IN  IF e2 > 0 THEN [ok |-> FALSE, v |-> none]
        ELSE IF e2 < -52 THEN [ok |-> FALSE, v |-> none]
        ELSE [ok |-> TRUE, v |-> [mantissa |-> BShr(m2, -e2), exponent |-> 0]]

(***************************************************************************)
(* d2d_small_int (lines 1726-1759) and the zero-stripping loop of          *)
(* d2s_buffered_n (lines 1798-1806).                                       *)
(***************************************************************************)
d2d_small_int(ieeeMantissa, ieeeExponent) ==
    LET m2 == BSetBit(ieeeMantissa, DOUBLE_MANTISSA_BITS)
        e2 == ieeeExponent - DOUBLE_BIAS - DOUBLE_MANTISSA_BITS
        none == [mantissa |-> <<>>, exponent |-> 0]
    IN  IF e2 > 0 THEN [ok |-> FALSE, v |-> none]
        ELSE IF e2 < -52 THEN [ok |-> FALSE, v |-> none]
        ELSE IF ~BIsZero(BTrunc(m2, -e2)) THEN [ok |-> FALSE, v |-> none]
        ELSE [ok |-> TRUE, v |-> [mantissa |-> BShr(m2, -e2), exponent |-> 0]]

\* One test of the loop: r != 0 ends it.  With mantissa = 0 the loop of the
\* source never ends; the model stops there and leaves the 0.
RECURSIVE StripZeros(_)
StripZeros(v) ==
    LET q == div10(v.mantissa)
        r == Mod32(v.mantissa, 10, q)
    IN  IF r # 0 \/ BIsZero(v.mantissa) THEN v
        ELSE StripZeros([mantissa |-> q, exponent |-> v.exponent + 1])

(***************************************************************************)
(* d2s_buffered_n and d2s_buffered (lines 1761-1820).  The double is given *)
(* by its 64 bits (double_to_bits).                                        *)
(***************************************************************************)
BitsSign(bits) ==
    BModSmall(BShr(bits, DOUBLE_MANTISSA_BITS + DOUBLE_EXPONENT_BITS), 2) # 0

BitsMantissa(bits) == BTrunc(bits, DOUBLE_MANTISSA_BITS)

BitsExponent(bits) ==
    BToInt(BTrunc(BShr(bits, DOUBLE_MANTISSA_BITS), DOUBLE_EXPONENT_BITS))

IsSpecial(bits) ==
    \/ BitsExponent(bits) = 2^DOUBLE_EXPONENT_BITS - 1
    \/ (BitsExponent(bits) = 0 /\ BIsZero(BitsMantissa(bits)))

\* The floating_decimal_64 handed to to_chars for a finite nonzero double.
ToDecimalFrom(si, ieeeMantissa, ieeeExponent) ==
    IF si.ok THEN StripZeros(si.v) ELSE d2d(ieeeMantissa, ieeeExponent)

ToDecimal(ieeeMantissa, ieeeExponent) ==
    ToDecimalFrom(d2d_small_int(ieeeMantissa, ieeeExponent),
                  ieeeMantissa, ieeeExponent)

d2s_buffered_n(bits, result) ==
    IF IsSpecial(bits)
    THEN copy_special_str(result, BitsSign(bits), BitsExponent(bits) # 0,
                          ~BIsZero(BitsMantissa(bits)))
    ELSE to_chars(ToDecimal(BitsMantissa(bits), BitsExponent(bits)),
                  BitsSign(bits), result)

\* result[index] = '\0'
Terminate(r) == Put(r.result, r.index, NUL)

d2s_buffered(bits, result) == Terminate(d2s_buffered_n(bits, result))

(***************************************************************************)
(* State.                                                                  *)
(*                                                                         *)
(* SpecCore runs one call of d2s_buffered_n step by step:                  *)
(*   f       the 64 bits of the double                                     *)
(*   cpc     the position in d2s_buffered_n                                *)
(*   dec     ieeeSign, ieeeMantissa, ieeeExponent                          *)
(*   iv      the locals of d2d after step 3                                *)
(*   v       the floating_decimal_64                                       *)
(*   result  the caller's char buffer, index the value returned            *)
(*                                                                         *)
(* Spec runs calls of ryu_string, one frame per call:                      *)
(*   arg[c]  the arguments d (as bits), fmt, nbytes                        *)
(*   fr[c]   the locals pc, buf, p, e, en, i                               *)
(*   wr[c]   struct writer: n, count and the memory dst points to; oob     *)
(*           records a store outside dst[0 .. nbytes-1]                    *)
(*   ret[c]  the value returned, -1 before the return                      *)
(*                                                                         *)
(* SpecMul runs one call of mulShiftAll64 in one of the three builds:      *)
(*   ms      the build, the arguments m, mul, j, mmShift and the result    *)
(*                                                                         *)
(* SpecTables runs one call of double_computePow5 or of                    *)
(* double_computeInvPow5:                                                  *)
(*   ct      the function, its argument i and the result                   *)
(***************************************************************************)
VARIABLES f, cpc, dec, iv, v, result, index, arg, fr, wr, ret, ms, ct, lp, hp

coreVars == <<f, cpc, dec, iv, v, result, index>>

shellVars == <<arg, fr, wr, ret>>

auxVars == <<ms, ct, lp, hp>>

vars == <<f, cpc, dec, iv, v, result, index, arg, fr, wr, ret, ms, ct, lp, hp>>

(***************************************************************************)
(* Bounds of the model.                                                    *)
(***************************************************************************)
\* ieeeMantissa ranges over 0 .. MaxMantLow, 2^52 - 1 - MaxMantLow .. 2^52 - 1
\* and the values of MidMantissas.
MaxMantLow == 3

\* nbytes of the first call ranges over 0 .. MaxNbytes.
MaxNbytes == 6

\* The size of the buffer of the second call, when it has one.
BufSize == 40

(***************************************************************************)
(* Inputs.                                                                 *)
(***************************************************************************)
MakeBits(sign, exponent, mantissa) ==
    BAdd(BAdd(BShl(BFromInt(sign), DOUBLE_MANTISSA_BITS + DOUBLE_EXPONENT_BITS),
              BShl(BFromInt(exponent), DOUBLE_MANTISSA_BITS)),
         mantissa)

\* Biased exponents: subnormals, the smallest and largest normals, values
\* below 1, the binades of 1, of 2^50 .. 2^57 (fractions of 1/4, the exact
\* integers, the integers above 2^53), of q = 21 .. 22 in the e2 >= 0
\* branch of d2d, and a few far ones.
CoreExponents ==
    {0, 1, 2, 54, 500, 1000, 1022, 1023, 1024, 1026, 1050, 1073, 1074, 1075,
     1076, 1077, 1078, 1079, 1080, 1081, 1100, 1151, 1154, 1155, 1156, 1500,
     2000, 2045, 2046}

\* 2^51 (1.5 x 2^e), 2 * 5^22 - 2^52, 3 * 5^22 - 2^52, (7 * 5^22 + 1) / 2 - 2^52,
\* 0x5555555555555 and 0x89abcdef01234.
MidMantissas ==
    {BPow2(51),
     <<21906, 3227, 17212, 7>>,
     <<16475, 4841, 9434, 75>>,
     <<13760, 5648, 5545, 109>>,
     <<21845, 10922, 21845, 42>>,
     <<4660, 15840, 27379, 68>>}

CoreMantissas ==
    {BFromInt(k) : k \in 0..MaxMantLow}
    \cup {BSub(BPow2(DOUBLE_MANTISSA_BITS), BFromInt(k + 1)) : k \in 0..MaxMantLow}
    \cup MidMantissas

CoreInputs ==
    {MakeBits(s, e, m) : s \in {0, 1}, e \in CoreExponents, m \in CoreMantissas}
    \cup {MakeBits(s, 2047, m) : s \in {0, 1}, m \in {<<>>, <<1>>, BPow2(51)}}

NoDecimal == [mantissa |-> <<>>, exponent |-> 0]

NoInterval ==
    [vr |-> <<>>, vp |-> <<>>, vm |-> <<>>, e10 |-> 0,
     vmIsTrailingZeros |-> FALSE, vrIsTrailingZeros |-> FALSE,
     acceptBounds |-> FALSE, e2 |-> 0, q |-> 0, index |-> 0, shift |-> 0,
     mmShift |-> 0]

NoDecoded == [ieeeSign |-> FALSE, ieeeMantissa |-> <<>>, ieeeExponent |-> 0]

\* char buf[80] of ryu_string, not yet written.
BufLen == 80

FreshBuf == [k \in 1..BufLen |-> Uninit]

Calls == {1, 2}

IdleCore ==
    /\ f = <<>>
    /\ cpc = "idle"
    /\ dec = NoDecoded
    /\ iv = NoInterval
    /\ v = NoDecimal
    /\ result = <<>>
    /\ index = 0

\* The locals of a call of ryu_string: buf, p, e, en, i, the position pc in
\* its code and, while one of the loops "while (*p) write_char(&wr, *(p++))"
\* runs, the position next that follows the loop.
IdleFrame ==
    [pc |-> "idle", next |-> "idle", buf |-> <<>>, p |-> 0, e |-> 0, en |-> 0,
     i |-> 0]

\* struct writer (lines 1822-1826); top is one more than the highest index
\* of dst that a store has been made to, 0 when there was no store.
IdleWriter == [dst |-> <<>>, n |-> 0, count |-> 0, top |-> 0]

IdleShell ==
    /\ arg = [c \in Calls |-> [d |-> <<>>, fmt |-> NUL, nbytes |-> 0]]
    /\ fr = [c \in Calls |-> IdleFrame]
    /\ wr = [c \in Calls |-> IdleWriter]
    /\ ret = [c \in Calls |-> -1]

NoTriple == [vr |-> <<>>, vp |-> <<>>, vm |-> <<>>]

IdleMul ==
    [pc |-> "idle", build |-> "none", m |-> <<>>, mul |-> <<<<>>, <<>>>>, j |-> 0,
     mmShift |-> 0, out |-> NoTriple]

IdleTable ==
    [pc |-> "idle", fn |-> "none", build |-> "none", i |-> 0,
     out |-> <<<<>>, <<>>>>, inside |-> TRUE]

\* No step 4 in progress.
IdleLoop ==
    [pc |-> "idle", s0 |-> d2d_step4_init(NoInterval),
     s |-> d2d_step4_init(NoInterval)]

\* No call of an integer helper in progress.
IdleHelper ==
    [pc |-> "idle", fn |-> "none", e |-> 0, pow |-> <<1>>, value |-> <<>>,
     p |-> 0, count |-> 0, multiple |-> FALSE]

IdleAux ==
    /\ ms = IdleMul
    /\ ct = IdleTable
    /\ lp = IdleLoop
    /\ hp = IdleHelper

(***************************************************************************)
(* SpecCore: d2s_buffered_n(f, result).                                    *)
(***************************************************************************)
InitCore ==
    /\ f \in CoreInputs
    /\ cpc = "decode"
    /\ dec = NoDecoded
    /\ iv = NoInterval
    /\ v = NoDecimal
    /\ result = FreshBuf
    /\ index = 0
    /\ IdleShell
    /\ IdleAux

\* Lines 1775-1779 and the test of lines 1781-1782.
CoreDecode ==
    /\ cpc = "decode"
    /\ dec' = [ieeeSign |-> BitsSign(f),
               ieeeMantissa |-> BitsMantissa(f),
               ieeeExponent |-> BitsExponent(f)]
    /\ cpc' = IF IsSpecial(f) THEN "special" ELSE "small_int"
    /\ UNCHANGED <<f, iv, v, result, index>>

\* Line 1784: return copy_special_str(...).
CoreSpecial ==
    /\ cpc = "special"
    /\ LET r == copy_special_str(result, dec.ieeeSign, dec.ieeeExponent # 0,
                                 ~BIsZero(dec.ieeeMantissa))
       IN  /\ result' = r.result
           /\ index' = r.index
    /\ cpc' = "done"
    /\ UNCHANGED <<f, dec, iv, v>>

\* Lines 1787-1789: the call of d2d_small_int.
CoreSmallInt ==
    /\ cpc = "small_int"
    /\ LET si == d2d_small_int(dec.ieeeMantissa, dec.ieeeExponent)
       IN  /\ v' = si.v
           /\ cpc' = IF si.ok THEN "strip" ELSE "d2d"
    /\ UNCHANGED <<f, dec, iv, result, index>>

\* Lines 1798-1806 with the loop left at once: no zero is stripped.
CoreStripNone ==
    /\ cpc = "strip"
    /\ v' = v
    /\ cpc' = "to_chars"
    /\ UNCHANGED <<f, dec, iv, result, index>>

\* Lines 1798-1806: one pass of the zero-stripping loop.
CoreStrip ==
    /\ cpc = "strip"
    /\ LET q == div10(v.mantissa)
           r == Mod32(v.mantissa, 10, q)
       IN  IF r # 0
           THEN /\ cpc' = "to_chars"
                /\ v' = v
           ELSE /\ v' = [mantissa |-> q, exponent |-> v.exponent + 1]
                /\ cpc' = cpc
    /\ UNCHANGED <<f, dec, iv, result, index>>

\* Line 1808, first half: steps 1 to 3 of d2d.
CoreStep3 ==
    /\ cpc = "d2d"
    /\ iv' = d2d_step3(dec.ieeeMantissa, dec.ieeeExponent)
    /\ cpc' = "step4"
    /\ UNCHANGED <<f, dec, v, result, index>>

\* Line 1808, second half: step 4 of d2d and its return value.
CoreStep4 ==
    /\ cpc = "step4"
    /\ v' = d2d_result(d2d_step4(iv))
    /\ cpc' = "to_chars"
    /\ UNCHANGED <<f, dec, iv, result, index>>

\* Line 1811: return to_chars(v, ieeeSign, result).
CoreToChars ==
    /\ cpc = "to_chars"
    /\ LET r == to_chars(v, dec.ieeeSign, result)
       IN  /\ result' = r.result
           /\ index' = r.index
    /\ cpc' = "done"
    /\ UNCHANGED <<f, dec, iv, v>>

NextCore ==
    \/ (CoreDecode /\ UNCHANGED <<shellVars, auxVars>>)
    \/ (CoreSpecial /\ UNCHANGED <<shellVars, auxVars>>)
    \/ (CoreSmallInt /\ UNCHANGED <<shellVars, auxVars>>)
    \/ (CoreStrip /\ UNCHANGED <<shellVars, auxVars>>)
    \/ (CoreStep3 /\ UNCHANGED <<shellVars, auxVars>>)
    \/ (CoreStep4 /\ UNCHANGED <<shellVars, auxVars>>)
    \/ (CoreToChars /\ UNCHANGED <<shellVars, auxVars>>)

SpecCore == InitCore /\ [][NextCore]_vars

(***************************************************************************)
(* SpecWide: d2s_buffered_n on every biased exponent 0 .. 2047, with the   *)
(* mantissas 0, 1, 2^51 and 2^52 - 1 of each, and on 1e308.               *)
(***************************************************************************)
WideInputs ==
    {MakeBits(0, e, m) :
        e \in 0..(2 ^ DOUBLE_EXPONENT_BITS - 1),
        m \in {<<>>, <<1>>, BPow2(DOUBLE_MANTISSA_BITS - 1),
                BSub(BPow2(DOUBLE_MANTISSA_BITS), <<1>>)}}
    \cup {MakeBits(0, 2046, <<18592, 3031, 13262, 14>>)}

InitWide ==
    /\ f \in WideInputs
    /\ cpc = "decode"
    /\ dec = NoDecoded
    /\ iv = NoInterval
    /\ v = NoDecimal
    /\ result = FreshBuf
    /\ index = 0
    /\ IdleShell
    /\ IdleAux

SpecWide == InitWide /\ [][NextCore]_vars

(***************************************************************************)
(* SpecChars: to_chars(v, sign, result) on its own (line 1811 with any     *)
(* decimal of 1 to 17 digits, not only those d2d returns).                 *)
(***************************************************************************)
\* The first n digits of 12345678901234567.
RECURSIVE CharsPattern(_)
CharsPattern(n) ==
    IF n = 0 THEN <<>>
    ELSE BAdd(BMulSmall(CharsPattern(n - 1), 10), BFromInt(n % 10))

\* For each length 1 .. 17: the smallest and the largest mantissa and one
\* with mixed digits.
CharsMantissas ==
    UNION {{Pow10Tab[n - 1], BSub(Pow10Tab[n], <<1>>), CharsPattern(n)} :
              n \in 1..17}

\* Exponents e10 that give printed exponents of one, two and three digits
\* of either sign, and the changes of length at 10 and 100.
CharsExponents ==
    {-340, -324, -116, -100, -99, -26, -17, -10, -9, -1, 0, 1, 9, 10, 83, 99,
     100, 292, 308}

InitChars ==
    /\ f = <<>>
    /\ cpc = "to_chars"
    /\ \E s \in BOOLEAN : dec = [NoDecoded EXCEPT !.ieeeSign = s]
    /\ iv = NoInterval
    /\ \E m \in CharsMantissas, e \in CharsExponents :
           v = [mantissa |-> m, exponent |-> e]
    /\ result = FreshBuf
    /\ index = 0
    /\ IdleShell
    /\ IdleAux

NextChars == CoreToChars /\ UNCHANGED <<shellVars, auxVars>>

SpecChars == InitChars /\ [][NextChars]_vars

(***************************************************************************)
(* SpecMul: the call of mulShiftAll64 that d2d makes for a double, in each *)
(* of the three builds (lines 378-477).                                    *)
(***************************************************************************)
Builds == {"uint128", "intrinsics", "64"}

\* <<ieeeMantissa, ieeeExponent>>: every normal double with the mantissa 0
\* (all the calls with mmShift = 0, but for the exponent 1), and the finite
\* nonzero doubles of CoreInputs.
MulInputs ==
    {<<(<<>>), e>> : e \in 1..(2 ^ DOUBLE_EXPONENT_BITS - 2)}
    \cup {<<m, e>> : m \in CoreMantissas \ {<<>>}, e \in CoreExponents}

\* ms at the call made for the double x in the build b.
MulCall(b, c) ==
    [pc |-> "call", build |-> b, m |-> c.m, mul |-> c.mul, j |-> c.j,
     mmShift |-> c.mmShift, out |-> NoTriple]

InitMul ==
    /\ IdleCore
    /\ IdleShell
    /\ ct = IdleTable
    /\ lp = IdleLoop
    /\ hp = IdleHelper
    /\ \E b \in Builds, x \in MulInputs :
           ms = MulCall(b, d2d_call(d2d_step3(x[1], x[2]), d2d_m2(x[1], x[2])))

\* Lines 389-396.
MulUint128 ==
    /\ ms.pc = "call"
    /\ ms.build = "uint128"
    /\ ms' = [ms EXCEPT !.out = mulShiftAll64(ms.m, ms.mul, ms.j, ms.mmShift),
                        !.pc = "done"]

\* Lines 415-422.
MulIntrinsics ==
    /\ ms.pc = "call"
    /\ ms.build = "intrinsics"
    /\ ms' = [ms EXCEPT
                 !.out = mulShiftAll64_intrinsic(ms.m, ms.mul, ms.j, ms.mmShift),
                 !.pc = "done"]

\* Lines 442-475.
Mul64 ==
    /\ ms.pc = "call"
    /\ ms.build = "64"
    /\ ms' = [ms EXCEPT !.out = mulShiftAll64_64(ms.m, ms.mul, ms.j, ms.mmShift),
                        !.pc = "done"]

NextMul ==
    \/ (MulUint128 /\ UNCHANGED <<coreVars, shellVars, ct, lp, hp>>)
    \/ (MulIntrinsics /\ UNCHANGED <<coreVars, shellVars, ct, lp, hp>>)
    \/ (Mul64 /\ UNCHANGED <<coreVars, shellVars, ct, lp, hp>>)

SpecMul == InitMul /\ [][NextMul]_vars

(***************************************************************************)
(* The compact-table functions on their own: one call of                   *)
(* double_computePow5 or double_computeInvPow5 per behaviour, for every    *)
(* index of the full table it stands for, in the build with uint128_t and  *)
(* in the builds without.                                                  *)
(***************************************************************************)
TableBuilds == {"uint128", "64"}

TableCall(fn, b, i) ==
    [pc |-> "call", fn |-> fn, build |-> b, i |-> i, out |-> <<<<>>, <<>>>>,
     inside |-> TRUE]

InitTables ==
    /\ IdleCore
    /\ IdleShell
    /\ ms = IdleMul
    /\ lp = IdleLoop
    /\ hp = IdleHelper
    /\ \E b \in TableBuilds :
           \/ \E i \in 0..(DOUBLE_POW5_TABLE_SIZE - 1) :
                  ct = TableCall("double_computePow5", b, i)
           \/ \E i \in 0..(DOUBLE_POW5_INV_TABLE_SIZE - 1) :
                  ct = TableCall("double_computeInvPow5", b, i)

\* Lines 545-565.
ComputePow5 ==
    /\ ct.pc = "call"
    /\ ct.fn = "double_computePow5"
    /\ ct.build = "uint128"
    /\ \E word \in ReadWord(POW5_OFFSETS, ct.i \div 16) :
           ct' = [ct EXCEPT !.out = double_computePow5(ct.i, word),
                            !.inside = double_computePow5_inside(ct.i),
                            !.pc = "done"]

\* Lines 567-587.
ComputeInvPow5 ==
    /\ ct.pc = "call"
    /\ ct.fn = "double_computeInvPow5"
    /\ ct.build = "uint128"
    /\ \E word \in ReadWord(POW5_INV_OFFSETS, ct.i \div 16) :
           ct' = [ct EXCEPT !.out = double_computeInvPow5(ct.i, word),
                            !.inside = double_computeInvPow5_inside(ct.i),
                            !.pc = "done"]

\* Lines 592-617.
ComputePow5_64 ==
    /\ ct.pc = "call"
    /\ ct.fn = "double_computePow5"
    /\ ct.build = "64"
    /\ \E word \in ReadWord(POW5_OFFSETS, ct.i \div 16) :
           ct' = [ct EXCEPT !.out = double_computePow5_64(ct.i, word),
                            !.inside = double_computePow5_inside(ct.i),
                            !.pc = "done"]

\* Lines 621-648.
ComputeInvPow5_64 ==
    /\ ct.pc = "call"
    /\ ct.fn = "double_computeInvPow5"
    /\ ct.build = "64"
    /\ \E word \in ReadWord(POW5_INV_OFFSETS, ct.i \div 16) :
           ct' = [ct EXCEPT !.out = double_computeInvPow5_64(ct.i, word),
                            !.inside = double_computeInvPow5_inside(ct.i),
                            !.pc = "done"]

NextTables ==
    \/ (ComputePow5 /\ UNCHANGED <<coreVars, shellVars, ms, lp, hp>>)
    \/ (ComputeInvPow5 /\ UNCHANGED <<coreVars, shellVars, ms, lp, hp>>)
    \/ (ComputePow5_64 /\ UNCHANGED <<coreVars, shellVars, ms, lp, hp>>)
    \/ (ComputeInvPow5_64 /\ UNCHANGED <<coreVars, shellVars, ms, lp, hp>>)

SpecTables == InitTables /\ [][NextTables]_vars

(***************************************************************************)
(* Step 4 of d2d pass by pass (lines 1494-1600): one action per loop pass  *)
(* and per straight-line piece, from the triple step 3 hands over for      *)
(* every double d2s_buffered_n passes to d2d.                              *)
(***************************************************************************)
\* <<ieeeMantissa, ieeeExponent>> of the doubles that reach d2d: finite,
\* nonzero and declined by d2d_small_int.  Four more, 1.801439850948199E16,
\* 3.602879701896398E16, 7.20575940379286E16 and 1.27355309233024E20, make
\* the second loop of the general path remove one digit or two.
LoopInputs ==
    {x \in {<<m, e>> :
                m \in {<<>>, <<1>>, BPow2(DOUBLE_MANTISSA_BITS - 1),
                       BSub(BPow2(DOUBLE_MANTISSA_BITS), <<1>>)},
                e \in 0..(2 ^ DOUBLE_EXPONENT_BITS - 2)} :
        /\ ~(x[1] = <<>> /\ x[2] = 0)
        /\ ~d2d_small_int(x[1], x[2]).ok}
    \cup {<<(<<2>>), 1077>>, <<(<<2>>), 1078>>, <<(<<42>>), 1079>>,
          <<<<22960, 6123, 30351, 92>>, 1089>>}

LoopCall(s0) == [pc |-> "step4", s0 |-> s0, s |-> s0]

InitLoops ==
    /\ IdleCore
    /\ IdleShell
    /\ ms = IdleMul
    /\ ct = IdleTable
    /\ hp = IdleHelper
    /\ \E x \in LoopInputs :
           lp = LoopCall(d2d_step4_init(d2d_step3(x[1], x[2])))

\* Line 1500: if (vmIsTrailingZeros || vrIsTrailingZeros).
LoopBranch ==
    /\ lp.pc = "step4"
    /\ lp' = [lp EXCEPT !.pc = IF lp.s.general THEN "loop1" ELSE "two"]

\* Lines 1502-1519: one pass of the first loop of the general path, or its
\* break.
GeneralLoop1 ==
    /\ lp.pc = "loop1"
    /\ lp' = IF d2d_loop_test(lp.s)
             THEN [lp EXCEPT !.s = d2d_general_loop1_body(lp.s)]
             ELSE [lp EXCEPT !.pc = IF lp.s.vmIsTrailingZeros
                                    THEN "loop2" ELSE "round"]

\* Lines 1525-1544: one pass of the second loop, or its break.  A pass with
\* vm = 0 leaves vm = 0, so the loop of the source goes on forever: the
\* model records it and stays there.
GeneralLoop2 ==
    /\ lp.pc = "loop2"
    /\ lp' = IF ~d2d_general_loop2_test(lp.s)
             THEN [lp EXCEPT !.pc = "round"]
             ELSE IF BIsZero(lp.s.vm)
             THEN [lp EXCEPT !.s.diverges = TRUE]
             ELSE [lp EXCEPT !.s = d2d_general_loop2_body(lp.s)]

\* Lines 1550-1556.
GeneralOutput ==
    /\ lp.pc = "round"
    /\ lp' = [lp EXCEPT !.s = d2d_general_output(d2d_general_round(lp.s)),
                        !.pc = "done"]

\* Lines 1560-1572.
CommonTwo ==
    /\ lp.pc = "two"
    /\ lp' = [lp EXCEPT !.s = d2d_common_two(lp.s), !.pc = "loop"]

\* Lines 1577-1591: one pass of the loop of the common path, or its break.
CommonLoop ==
    /\ lp.pc = "loop"
    /\ lp' = IF d2d_loop_test(lp.s)
             THEN [lp EXCEPT !.s = d2d_common_loop_body(lp.s)]
             ELSE [lp EXCEPT !.pc = "output"]

\* Line 1599.
CommonOutput ==
    /\ lp.pc = "output"
    /\ lp' = [lp EXCEPT !.s = d2d_common_output(lp.s), !.pc = "done"]

NextLoops ==
    \/ (LoopBranch /\ UNCHANGED <<coreVars, shellVars, ms, ct, hp>>)
    \/ (GeneralLoop1 /\ UNCHANGED <<coreVars, shellVars, ms, ct, hp>>)
    \/ (GeneralLoop2 /\ UNCHANGED <<coreVars, shellVars, ms, ct, hp>>)
    \/ (GeneralOutput /\ UNCHANGED <<coreVars, shellVars, ms, ct, hp>>)
    \/ (CommonTwo /\ UNCHANGED <<coreVars, shellVars, ms, ct, hp>>)
    \/ (CommonLoop /\ UNCHANGED <<coreVars, shellVars, ms, ct, hp>>)
    \/ (CommonOutput /\ UNCHANGED <<coreVars, shellVars, ms, ct, hp>>)

SpecLoops == InitLoops /\ [][NextLoops]_vars

(***************************************************************************)
(* SpecTwo: the common path of step 4 (lines 1557-1600) on its own, pass   *)
(* by pass, from any triple vm <= vr <= vp and not only from the triples   *)
(* that step 3 produces.                                                   *)
(***************************************************************************)
\* The values of vm, the distances vr - vm and vp - vr.
TwoBases ==
    {BFromInt(k) : k \in {0, 1, 9, 10, 95, 99, 100, 101, 199, 990, 999, 1000,
                          12345, 99999}}
    \cup {BPow10(17), BSub(BPow2(64), BFromInt(3000))}

TwoGaps == {0, 1, 2, 5, 9, 10, 50, 99, 100, 101, 500, 1000}

TwoTriple(b, lo, hi) ==
    [NoInterval EXCEPT !.vm = b,
                       !.vr = BAdd(b, BFromInt(lo)),
                       !.vp = BAdd(b, BFromInt(lo + hi))]

InitTwo ==
    /\ IdleCore
    /\ IdleShell
    /\ ms = IdleMul
    /\ ct = IdleTable
    /\ hp = IdleHelper
    /\ \E b \in TwoBases, lo \in TwoGaps, hi \in TwoGaps :
           lp = [pc |-> "two",
                 s0 |-> d2d_step4_init(TwoTriple(b, lo, hi)),
                 s |-> d2d_step4_init(TwoTriple(b, lo, hi))]

NextTwo ==
    \/ (CommonTwo /\ UNCHANGED <<coreVars, shellVars, ms, ct, hp>>)
    \/ (CommonLoop /\ UNCHANGED <<coreVars, shellVars, ms, ct, hp>>)
    \/ (CommonOutput /\ UNCHANGED <<coreVars, shellVars, ms, ct, hp>>)

SpecTwo == InitTwo /\ [][NextTwo]_vars

(***************************************************************************)
(* ryu_string (lines 1822-1905).                                           *)
(***************************************************************************)
\* buf[p]
At(buf, p) == buf[p + 1]

\* The index of the terminator of the string that starts at buf[p].
StrEnd(buf, p) ==
    IF \E k \in p..(Len(buf) - 1) : At(buf, k) = NUL
    THEN CHOOSE k \in p..(Len(buf) - 1) :
             At(buf, k) = NUL /\ \A j \in p..(k - 1) : At(buf, j) # NUL
    ELSE Len(buf)

\* strchr(buf + p, ch) for ch # '\0': the index found, -1 for NULL.
strchr(buf, p, ch) ==
    IF \E k \in p..(StrEnd(buf, p) - 1) : At(buf, k) = ch
    THEN CHOOSE k \in p..(StrEnd(buf, p) - 1) :
             At(buf, k) = ch /\ \A j \in p..(k - 1) : At(buf, j) # ch
    ELSE -1

\* strcpy(buf + p, str)
strcpy(buf, p, str) == PutStr(buf, p, Append(str, NUL))

IsDigit(ch) == \E d \in 0..9 : DigitChar(d) = ch

DigitVal(ch) == CHOOSE d \in 0..9 : DigitChar(d) = ch

\* The digits that atoi reads from buf[p] on, after the value acc.
RECURSIVE atoi_digits(_, _, _)
atoi_digits(buf, p, acc) ==
    IF p < Len(buf) /\ IsDigit(At(buf, p))
    THEN atoi_digits(buf, p + 1, 10 * acc + DigitVal(At(buf, p)))
    ELSE acc

\* atoi(buf + p); the strings it is given have no leading space.
atoi(buf, p) ==
    IF At(buf, p) = "-" THEN -atoi_digits(buf, p + 1, 0)
    ELSE IF At(buf, p) = "+" THEN atoi_digits(buf, p + 1, 0)
    ELSE atoi_digits(buf, p, 0)

\* wr->dst[pos] = b.  dst has nbytes cells; a store outside them is
\* recorded in top and otherwise has no effect in the model.
Store(w, pos, b) ==
    [w EXCEPT !.dst = IF pos < Len(@) THEN Put(@, pos, b) ELSE @,
              !.top = Max(@, pos + 1)]

\* write_char with the guard of line 1834 removed.
write_char_unguarded(w, b) == [Store(w, w.count, b) EXCEPT !.count = @ + 1]

\* write_char counting only the characters it stores.
write_char_stored_only(w, b) ==
    IF w.count < w.n THEN [Store(w, w.count, b) EXCEPT !.count = @ + 1] ELSE w

\* Lines 1833-1836.
write_char(w, b) ==
    [(IF w.count < w.n THEN Store(w, w.count, b) ELSE w) EXCEPT !.count = @ + 1]

\* write_nullterm always terminating in the last cell.
write_nullterm_last(w) == IF w.n > 0 THEN Store(w, w.n - 1, NUL) ELSE w

\* write_nullterm terminating at count and in the last cell as well.
write_nullterm_both(w) ==
    IF w.n > w.count THEN Store(Store(w, w.count, NUL), w.n - 1, NUL)
    ELSE IF w.n > 0 THEN Store(w, w.n - 1, NUL)
    ELSE w

\* Lines 1828-1831.
write_nullterm(w) ==
    IF w.n > w.count THEN Store(w, w.count, NUL)
    ELSE IF w.n > 0 THEN Store(w, w.n - 1, NUL)
    ELSE w

\* The switch of line 1842 with the conversion run for every format.
ryu_string_switch_all(d, fmt) == d2s_buffered(d, FreshBuf)

\* Lines 1841-1848: buf after the switch on fmt.
ryu_string_switch(d, fmt) ==
    IF fmt \in {"f", "e", "E"} THEN d2s_buffered(d, FreshBuf)
    ELSE Put(FreshBuf, 0, NUL)

\* Line 1878 with one more turn of the loop.
FixNegMore(i, en) == i < en

\* Line 1878: the condition of the loop that writes the zeros after "0.".
FixNegLoop(i, en) == i < en - 1

\* Line 1897 without the test for a fraction.
FixPosAnyRest(buf, p) == TRUE

\* Line 1897: there is a fraction to print.
FixPosHasFraction(buf, p) ==
    At(buf, p) # NUL /\ ~(At(buf, p) = "0" /\ At(buf, p + 1) = NUL)

(***************************************************************************)
(* ryu_string as one function of its arguments (lines 1839-1905): the      *)
(* value returned and the writer, when no other call runs.  A state s is   *)
(* [w, buf, p]: the writer, buf and the pointer p.                         *)
(***************************************************************************)
\* write_char(&wr, b), then p += step.
ryu_string_put(s, b, step) ==
    [s EXCEPT !.w = write_char(@, b), !.p = @ + step]

\* while (*p) write_char(&wr, *(p++))
RECURSIVE ryu_string_copy(_)
ryu_string_copy(s) ==
    IF At(s.buf, s.p) = NUL THEN s
    ELSE ryu_string_copy(ryu_string_put(s, At(s.buf, s.p), 1))

\* Lines 1857-1864.
ryu_string_special(s) ==
    ryu_string_copy(
        [s EXCEPT !.buf =
            IF At(@, s.p) \in {"i", "I"}
            THEN strcpy(@, s.p, <<"I", "n", "f", "i", "n", "i", "t", "y">>)
            ELSE IF At(@, s.p) \in {"n", "N"}
            THEN strcpy(@, s.p, <<"N", "a", "N">>)
            ELSE Put(@, s.p, NUL)])

\* Lines 1866-1870.
ryu_string_sci(s, e, fmt) ==
    ryu_string_copy(
        ryu_string_put(ryu_string_copy([s EXCEPT !.buf = Put(@, e, NUL)]),
                       fmt, 1))

\* Lines 1878-1880.
RECURSIVE ryu_string_zeros(_, _, _)
ryu_string_zeros(s, i, en) ==
    IF FixNegLoop(i, en) THEN ryu_string_zeros(ryu_string_put(s, "0", 0), i + 1, en)
    ELSE s

\* Lines 1882-1885.
ryu_string_rest(s) ==
    IF At(s.buf, s.p) # NUL THEN ryu_string_copy([s EXCEPT !.p = @ + 1]) ELSE s

\* Line 1881.
ryu_string_first(s) == ryu_string_put(s, At(s.buf, s.p), 1)

\* Lines 1875-1885, en being -en of line 1877.
ryu_string_neg(s, en) ==
    ryu_string_rest(
        ryu_string_first(
            ryu_string_zeros(ryu_string_put(ryu_string_put(s, "0", 0), ".", 0),
                             0, en)))

\* Lines 1889-1895.
RECURSIVE ryu_string_shift(_, _, _)
ryu_string_shift(s, i, en) ==
    IF ~(i < en) THEN s
    ELSE IF At(s.buf, s.p) # NUL
    THEN ryu_string_shift(ryu_string_put(s, At(s.buf, s.p), 1), i + 1, en)
    ELSE ryu_string_shift(ryu_string_put(s, "0", 0), i + 1, en)

\* Line 1888.
ryu_string_skip(s) == IF At(s.buf, s.p) # NUL THEN [s EXCEPT !.p = @ + 1] ELSE s

\* Lines 1897-1900.
ryu_string_frac(s) ==
    IF FixPosHasFraction(s.buf, s.p) THEN ryu_string_copy(ryu_string_put(s, ".", 0))
    ELSE s

\* Lines 1887-1900.
ryu_string_pos(s, en) ==
    ryu_string_frac(ryu_string_shift(ryu_string_skip(ryu_string_first(s)), 0, en))

\* Lines 1872-1901.
ryu_string_fix(s, en) ==
    IF en < 0 THEN ryu_string_neg(s, -en) ELSE ryu_string_pos(s, en)

\* Lines 1856-1901: the three branches, e being the index of the exponent
\* character in buf, -1 when there is none.
ryu_string_branch(s, e, fmt) ==
    IF e = -1 THEN ryu_string_special(s)
    ELSE IF fmt \in {"e", "E"} THEN ryu_string_sci(s, e, fmt)
    ELSE ryu_string_fix([s EXCEPT !.buf = Put(@, e, NUL)], atoi(s.buf, e + 1))

\* Lines 1854-1855.
ryu_string_find(s) ==
    IF strchr(s.buf, s.p, "E") # -1 THEN strchr(s.buf, s.p, "E")
    ELSE strchr(s.buf, s.p, "e")

\* Lines 1850-1853.
ryu_string_sign(s) == IF At(s.buf, s.p) = "-" THEN ryu_string_put(s, "-", 1) ELSE s

ryu_string_body(s, fmt) == ryu_string_branch(s, ryu_string_find(s), fmt)

\* Lines 1840-1902: the writer when the call reaches write_nullterm.
ryu_string_run(d, fmt, nbytes) ==
    ryu_string_body(
        ryu_string_sign(
            [w |-> [dst |-> [k \in 1..nbytes |-> Uninit], n |-> nbytes,
                    count |-> 0, top |-> 0],
             buf |-> ryu_string_switch(d, fmt),
             p |-> 0]),
        fmt).w

\* Lines 1903-1904.
ryu_string_end(w) == [ret |-> w.count, w |-> write_nullterm(w)]

ryu_string(d, fmt, nbytes) == ryu_string_end(ryu_string_run(d, fmt, nbytes))

\* The doubles of the test program (212123123.123188832,
\* 9223372036854775808, 0.000123123001, 1.3441331, 1, -1, 0, -0, 0.5, -0.5,
\* -0.01, -0.015, 5000, 5e18, 5123, -112.89123883), then 1e21, 0.1 + 0.2,
\* 2^53, 1e-5, -1.25e-7, 120, 10.5, the infinities and four NaNs.
ShellDoubles ==
    {MakeBits(0, 1050, <<4763, 19582, 9711, 74>>),
     MakeBits(0, 1086, <<>>),
     MakeBits(0, 1010, <<2762, 3324, 3402, 1>>),
     MakeBits(0, 1023, <<2462, 27455, 1606, 44>>),
     MakeBits(0, 1023, <<>>),
     MakeBits(1, 1023, <<>>),
     MakeBits(0, 0, <<>>),
     MakeBits(1, 0, <<>>),
     MakeBits(0, 1022, <<>>),
     MakeBits(1, 1022, <<>>),
     MakeBits(1, 1016, <<5243, 3932, 27525, 35>>),
     MakeBits(1, 1016, <<7864, 22282, 24903, 117>>),
     MakeBits(0, 1035, <<0, 0, 8192, 28>>),
     MakeBits(0, 1085, <<15616, 16674, 25489, 10>>),
     MakeBits(0, 1035, <<0, 0, 3072, 32>>),
     MakeBits(1, 1029, <<29087, 7469, 25640, 97>>),
     MakeBits(0, 1092, <<28496, 11717, 27539, 88>>),
     MakeBits(0, 1021, <<13108, 26214, 19660, 25>>),
     MakeBits(0, 1076, <<>>),
     MakeBits(0, 1006, <<26865, 4550, 25302, 39>>),
     MakeBits(1, 1000, <<28045, 16747, 7134, 6>>),
     MakeBits(0, 1029, <<0, 0, 0, 112>>),
     MakeBits(0, 1026, <<0, 0, 0, 40>>),
     MakeBits(0, 2047, <<>>),
     MakeBits(1, 2047, <<>>),
     MakeBits(0, 2047, BPow2(51)),
     MakeBits(1, 2047, BPow2(51)),
     MakeBits(0, 2047, <<1>>),
     MakeBits(1, 2047, <<4660, 15840, 27379, 68>>)}

\* The three formats and two bytes that are no format.
Formats == {"f", "e", "E", "g", NUL}

(***************************************************************************)
(* Spec: two calls of ryu_string with the same double and format, as in    *)
(* the buffer tests of the test program: the first with a buffer of        *)
(* 0 .. MaxNbytes bytes, the second, made when the first has returned,      *)
(* with dst = NULL and nbytes = 0 or with a buffer of BufSize bytes.       *)
(***************************************************************************)
Init ==
    /\ IdleCore
    /\ IdleAux
    /\ \E d \in ShellDoubles, fmt \in Formats, n1 \in 0..MaxNbytes,
          n2 \in {0, BufSize} :
           arg = [c \in Calls |->
                     [d |-> d, fmt |-> fmt, nbytes |-> IF c = 1 THEN n1 ELSE n2]]
    /\ fr = [c \in Calls |-> [IdleFrame EXCEPT !.pc = "enter"]]
    /\ wr = [c \in Calls |-> IdleWriter]
    /\ ret = [c \in Calls |-> -1]

\* Call c may take a step.
Turn(c) == c = 1 \/ fr[1].pc = "done"

\* Lines 1840-1849 with buf in static storage: one array for all calls.
ConvertShared(c) ==
    /\ fr[c].pc = "enter"
    /\ wr' = [wr EXCEPT ![c] =
                 [dst |-> [k \in 1..arg[c].nbytes |-> Uninit],
                  n |-> arg[c].nbytes, count |-> 0, top |-> 0]]
    /\ fr' = [o \in Calls |->
                 IF o = c
                 THEN [fr[o] EXCEPT !.buf = ryu_string_switch(arg[c].d, arg[c].fmt),
                                    !.p = 0,
                                    !.pc = "sign"]
                 ELSE [fr[o] EXCEPT !.buf = ryu_string_switch(arg[c].d, arg[c].fmt)]]
    /\ UNCHANGED <<arg, ret>>

\* Lines 1840-1849: the writer, the switch on fmt, p = buf.
Convert(c) ==
    /\ fr[c].pc = "enter"
    /\ wr' = [wr EXCEPT ![c] =
                 [dst |-> [k \in 1..arg[c].nbytes |-> Uninit],
                  n |-> arg[c].nbytes, count |-> 0, top |-> 0]]
    /\ fr' = [fr EXCEPT ![c] =
                 [@ EXCEPT !.buf = ryu_string_switch(arg[c].d, arg[c].fmt),
                           !.p = 0,
                           !.pc = "sign"]]
    /\ UNCHANGED <<arg, ret>>

\* Lines 1850-1853.
Sign(c) ==
    /\ fr[c].pc = "sign"
    /\ IF At(fr[c].buf, fr[c].p) = "-"
       THEN /\ wr' = [wr EXCEPT ![c] = write_char(@, "-")]
            /\ fr' = [fr EXCEPT ![c] = [@ EXCEPT !.p = @ + 1, !.pc = "find"]]
       ELSE /\ wr' = wr
            /\ fr' = [fr EXCEPT ![c] = [@ EXCEPT !.pc = "find"]]
    /\ UNCHANGED <<arg, ret>>

\* Lines 1854-1856, 1865 and 1871: e, and the branch taken.
FindExp(c) ==
    /\ fr[c].pc = "find"
    /\ fr' = [fr EXCEPT ![c] =
                 [@ EXCEPT
                     !.e = IF strchr(fr[c].buf, fr[c].p, "E") # -1
                           THEN strchr(fr[c].buf, fr[c].p, "E")
                           ELSE strchr(fr[c].buf, fr[c].p, "e"),
                     !.pc = IF strchr(fr[c].buf, fr[c].p, "E") = -1
                               /\ strchr(fr[c].buf, fr[c].p, "e") = -1
                            THEN "special"
                            ELSE IF arg[c].fmt \in {"e", "E"} THEN "sci"
                            ELSE "fix"]]
    /\ UNCHANGED <<arg, wr, ret>>

\* Lines 1857-1863.
SpecialPrep(c) ==
    /\ fr[c].pc = "special"
    /\ fr' = [fr EXCEPT ![c] =
                 [@ EXCEPT
                     !.buf = IF At(@, fr[c].p) \in {"i", "I"}
                             THEN strcpy(@, fr[c].p,
                                         <<"I", "n", "f", "i", "n", "i", "t", "y">>)
                             ELSE IF At(@, fr[c].p) \in {"n", "N"}
                             THEN strcpy(@, fr[c].p, <<"N", "a", "N">>)
                             ELSE Put(@, fr[c].p, NUL),
                     !.pc = "copy",
                     !.next = "term"]]
    /\ UNCHANGED <<arg, wr, ret>>

\* One turn, or the end, of "while (*p) write_char(&wr, *(p++))"
\* (lines 1864, 1867, 1870, 1884 and 1899).
CopyRest(c) ==
    /\ fr[c].pc = "copy"
    /\ IF At(fr[c].buf, fr[c].p) # NUL
       THEN /\ wr' = [wr EXCEPT ![c] = write_char(@, At(fr[c].buf, fr[c].p))]
            /\ fr' = [fr EXCEPT ![c] = [@ EXCEPT !.p = @ + 1]]
       ELSE /\ wr' = wr
            /\ fr' = [fr EXCEPT ![c] = [@ EXCEPT !.pc = fr[c].next]]
    /\ UNCHANGED <<arg, ret>>

\* Line 1866, before the loop of line 1867.
SciPrep(c) ==
    /\ fr[c].pc = "sci"
    /\ fr' = [fr EXCEPT ![c] =
                 [@ EXCEPT !.buf = Put(@, fr[c].e, NUL),
                           !.pc = "copy",
                           !.next = "sci_e"]]
    /\ UNCHANGED <<arg, wr, ret>>

\* Lines 1868-1869 writing 'E' whatever the format.
SciFmtUpper(c) ==
    /\ fr[c].pc = "sci_e"
    /\ wr' = [wr EXCEPT ![c] = write_char(@, "E")]
    /\ fr' = [fr EXCEPT ![c] =
                 [@ EXCEPT !.p = @ + 1, !.pc = "copy", !.next = "term"]]
    /\ UNCHANGED <<arg, ret>>

\* Lines 1868-1869, before the loop of line 1870.
SciFmt(c) ==
    /\ fr[c].pc = "sci_e"
    /\ wr' = [wr EXCEPT ![c] = write_char(@, arg[c].fmt)]
    /\ fr' = [fr EXCEPT ![c] =
                 [@ EXCEPT !.p = @ + 1, !.pc = "copy", !.next = "term"]]
    /\ UNCHANGED <<arg, ret>>

\* Lines 1872-1874.
FixPrep(c) ==
    /\ fr[c].pc = "fix"
    /\ fr' = [fr EXCEPT ![c] =
                 [@ EXCEPT !.en = atoi(fr[c].buf, fr[c].e + 1),
                           !.buf = Put(@, fr[c].e, NUL),
                           !.pc = IF atoi(fr[c].buf, fr[c].e + 1) < 0
                                  THEN "neg" ELSE "pos"]]
    /\ UNCHANGED <<arg, wr, ret>>

\* Lines 1875-1877 and the start of the loop of line 1878.
FixNegLead(c) ==
    /\ fr[c].pc = "neg"
    /\ wr' = [wr EXCEPT ![c] = write_char(write_char(@, "0"), ".")]
    /\ fr' = [fr EXCEPT ![c] =
                 [@ EXCEPT !.en = -@, !.i = 0, !.pc = "neg_zeros"]]
    /\ UNCHANGED <<arg, ret>>

\* Lines 1878-1880: one turn of the loop.
FixNegZeros(c) ==
    /\ fr[c].pc = "neg_zeros"
    /\ FixNegLoop(fr[c].i, fr[c].en)
    /\ wr' = [wr EXCEPT ![c] = write_char(@, "0")]
    /\ fr' = [fr EXCEPT ![c] = [@ EXCEPT !.i = @ + 1]]
    /\ UNCHANGED <<arg, ret>>

\* Lines 1881-1885, after the loop of line 1878.
FixNegFirst(c) ==
    /\ fr[c].pc = "neg_zeros"
    /\ ~FixNegLoop(fr[c].i, fr[c].en)
    /\ wr' = [wr EXCEPT ![c] = write_char(@, At(fr[c].buf, fr[c].p))]
    /\ fr' = [fr EXCEPT ![c] =
                 IF At(@.buf, @.p + 1) # NUL
                 THEN [@ EXCEPT !.p = @ + 2, !.pc = "copy", !.next = "term"]
                 ELSE [@ EXCEPT !.p = @ + 1, !.pc = "term"]]
    /\ UNCHANGED <<arg, ret>>

\* Lines 1887-1888 and the start of the loop of line 1889.
FixPosFirst(c) ==
    /\ fr[c].pc = "pos"
    /\ wr' = [wr EXCEPT ![c] = write_char(@, At(fr[c].buf, fr[c].p))]
    /\ fr' = [fr EXCEPT ![c] =
                 [@ EXCEPT !.p = IF At(fr[c].buf, fr[c].p + 1) # NUL THEN fr[c].p + 2
                                 ELSE fr[c].p + 1,
                           !.i = 0,
                           !.pc = "pos_shift"]]
    /\ UNCHANGED <<arg, ret>>

\* Lines 1889-1895: one turn of the loop.
FixPosShift(c) ==
    /\ fr[c].pc = "pos_shift"
    /\ fr[c].i < fr[c].en
    /\ IF At(fr[c].buf, fr[c].p) # NUL
       THEN /\ wr' = [wr EXCEPT ![c] = write_char(@, At(fr[c].buf, fr[c].p))]
            /\ fr' = [fr EXCEPT ![c] = [@ EXCEPT !.p = @ + 1, !.i = @ + 1]]
       ELSE /\ wr' = [wr EXCEPT ![c] = write_char(@, "0")]
            /\ fr' = [fr EXCEPT ![c] = [@ EXCEPT !.i = @ + 1]]
    /\ UNCHANGED <<arg, ret>>

\* Lines 1897-1898, after the loop of line 1889.
FixPosFrac(c) ==
    /\ fr[c].pc = "pos_shift"
    /\ ~(fr[c].i < fr[c].en)
    /\ IF FixPosHasFraction(fr[c].buf, fr[c].p)
       THEN /\ wr' = [wr EXCEPT ![c] = write_char(@, ".")]
            /\ fr' = [fr EXCEPT ![c] = [@ EXCEPT !.pc = "copy", !.next = "term"]]
       ELSE /\ wr' = wr
            /\ fr' = [fr EXCEPT ![c] = [@ EXCEPT !.pc = "term"]]
    /\ UNCHANGED <<arg, ret>>

\* Lines 1903-1904.
Return(c) ==
    /\ fr[c].pc = "term"
    /\ wr' = [wr EXCEPT ![c] = write_nullterm(@)]
    /\ ret' = [ret EXCEPT ![c] = wr[c].count]
    /\ fr' = [fr EXCEPT ![c] = [@ EXCEPT !.pc = "done"]]
    /\ UNCHANGED arg

Next ==
    \E c \in Calls :
        \/ (Turn(c) /\ Convert(c) /\ UNCHANGED <<coreVars, auxVars>>)
        \/ (Turn(c) /\ Sign(c) /\ UNCHANGED <<coreVars, auxVars>>)
        \/ (Turn(c) /\ FindExp(c) /\ UNCHANGED <<coreVars, auxVars>>)
        \/ (Turn(c) /\ SpecialPrep(c) /\ UNCHANGED <<coreVars, auxVars>>)
        \/ (Turn(c) /\ CopyRest(c) /\ UNCHANGED <<coreVars, auxVars>>)
        \/ (Turn(c) /\ SciPrep(c) /\ UNCHANGED <<coreVars, auxVars>>)
        \/ (Turn(c) /\ SciFmt(c) /\ UNCHANGED <<coreVars, auxVars>>)
        \/ (Turn(c) /\ FixPrep(c) /\ UNCHANGED <<coreVars, auxVars>>)
        \/ (Turn(c) /\ FixNegLead(c) /\ UNCHANGED <<coreVars, auxVars>>)
        \/ (Turn(c) /\ FixNegZeros(c) /\ UNCHANGED <<coreVars, auxVars>>)
        \/ (Turn(c) /\ FixNegFirst(c) /\ UNCHANGED <<coreVars, auxVars>>)
        \/ (Turn(c) /\ FixPosFirst(c) /\ UNCHANGED <<coreVars, auxVars>>)
        \/ (Turn(c) /\ FixPosShift(c) /\ UNCHANGED <<coreVars, auxVars>>)
        \/ (Turn(c) /\ FixPosFrac(c) /\ UNCHANGED <<coreVars, auxVars>>)
        \/ (Turn(c) /\ Return(c) /\ UNCHANGED <<coreVars, auxVars>>)

Spec == Init /\ [][Next]_vars

(***************************************************************************)
(* SpecPar: two calls of ryu_string on distinct buffers running at the     *)
(* same time, each with arguments of its own; their steps interleave in    *)
(* every order.                                                            *)
(***************************************************************************)
\* nbytes of a call of SpecPar is 0, ParNbytes or BufSize.
ParNbytes == 3

\* -0.015, 10.5 and -Infinity.
ParDoubles ==
    {MakeBits(1, 1016, <<7864, 22282, 24903, 117>>),
     MakeBits(0, 1026, <<0, 0, 0, 40>>),
     MakeBits(1, 2047, <<>>)}

ParFormats == {"f", "e", "g"}

ParArgs ==
    [d : ParDoubles, fmt : ParFormats, nbytes : {0, ParNbytes, BufSize}]

InitPar ==
    /\ IdleCore
    /\ IdleAux
    /\ arg \in [Calls -> ParArgs]
    /\ fr = [c \in Calls |-> [IdleFrame EXCEPT !.pc = "enter"]]
    /\ wr = [c \in Calls |-> IdleWriter]
    /\ ret = [c \in Calls |-> -1]

NextPar ==
    \E c \in Calls :
        \/ (Convert(c) /\ UNCHANGED <<coreVars, auxVars>>)
        \/ (Sign(c) /\ UNCHANGED <<coreVars, auxVars>>)
        \/ (FindExp(c) /\ UNCHANGED <<coreVars, auxVars>>)
        \/ (SpecialPrep(c) /\ UNCHANGED <<coreVars, auxVars>>)
        \/ (CopyRest(c) /\ UNCHANGED <<coreVars, auxVars>>)
        \/ (SciPrep(c) /\ UNCHANGED <<coreVars, auxVars>>)
        \/ (SciFmt(c) /\ UNCHANGED <<coreVars, auxVars>>)
        \/ (FixPrep(c) /\ UNCHANGED <<coreVars, auxVars>>)
        \/ (FixNegLead(c) /\ UNCHANGED <<coreVars, auxVars>>)
        \/ (FixNegZeros(c) /\ UNCHANGED <<coreVars, auxVars>>)
        \/ (FixNegFirst(c) /\ UNCHANGED <<coreVars, auxVars>>)
        \/ (FixPosFirst(c) /\ UNCHANGED <<coreVars, auxVars>>)
        \/ (FixPosShift(c) /\ UNCHANGED <<coreVars, auxVars>>)
        \/ (FixPosFrac(c) /\ UNCHANGED <<coreVars, auxVars>>)
        \/ (Return(c) /\ UNCHANGED <<coreVars, auxVars>>)

SpecPar == InitPar /\ [][NextPar]_vars

(***************************************************************************)
(* SpecLive: one call of ryu_string from its entry to its return, with the *)
(* conversion inside it run step by step: d2s_buffered_n as in SpecCore,   *)
(* step 4 of d2d pass by pass as in SpecLoops, then the formatting steps   *)
(* of Spec.  The call is a sequential program: a step that can be taken is *)
(* taken, which is the weak fairness of its steps.                         *)
(***************************************************************************)
\* The doubles of Spec, and doubles for the loops: 2 * 5^22 (a zero to
\* strip), three doubles on which the second loop of the general path makes
\* passes, the smallest subnormal and the largest finite double.
LiveDoubles ==
    ShellDoubles
    \cup {MakeBits(0, 1075, <<21906, 3227, 17212, 7>>),
          MakeBits(0, 1077, <<2>>),
          MakeBits(1, 1079, <<42>>),
          MakeBits(0, 1089, <<22960, 6123, 30351, 92>>),
          MakeBits(0, 0, <<1>>),
          MakeBits(0, 2046, BSub(BPow2(DOUBLE_MANTISSA_BITS), <<1>>))}

LiveNbytes == {0, ParNbytes, BufSize}

InitLive ==
    /\ IdleCore
    /\ IdleAux
    /\ \E d \in LiveDoubles, fmt \in Formats, n \in LiveNbytes :
           arg = [c \in Calls |->
                     IF c = 1 THEN [d |-> d, fmt |-> fmt, nbytes |-> n]
                     ELSE [d |-> <<>>, fmt |-> NUL, nbytes |-> 0]]
    /\ fr = [c \in Calls |-> IF c = 1 THEN [IdleFrame EXCEPT !.pc = "enter"]
                             ELSE IdleFrame]
    /\ wr = [c \in Calls |-> IdleWriter]
    /\ ret = [c \in Calls |-> -1]

LiveWriter ==
    [dst |-> [k \in 1..arg[1].nbytes |-> Uninit], n |-> arg[1].nbytes,
     count |-> 0, top |-> 0]

\* Lines 1839-1844: the cases 'f', 'e', 'E' of the switch call d2s_buffered
\* with the local buf.
LiveCall ==
    /\ fr[1].pc = "enter"
    /\ arg[1].fmt \in {"f", "e", "E"}
    /\ wr' = [wr EXCEPT ![1] = LiveWriter]
    /\ fr' = [fr EXCEPT ![1] = [@ EXCEPT !.pc = "d2s"]]
    /\ f' = arg[1].d
    /\ cpc' = "decode"
    /\ result' = FreshBuf
    /\ UNCHANGED <<arg, ret, dec, iv, v, index, auxVars>>

\* Lines 1839-1841 and 1846-1849: the default case, buf[0] = '\0'.
LiveDefault ==
    /\ fr[1].pc = "enter"
    /\ arg[1].fmt \notin {"f", "e", "E"}
    /\ wr' = [wr EXCEPT ![1] = LiveWriter]
    /\ fr' = [fr EXCEPT ![1] = [@ EXCEPT !.buf = Put(FreshBuf, 0, NUL),
                                         !.p = 0,
                                         !.pc = "sign"]]
    /\ UNCHANGED <<arg, ret, coreVars, auxVars>>

\* Line 1808: d2d is entered; its step 4 starts from the result of step 3.
LiveStep4 ==
    /\ cpc = "step4"
    /\ lp.pc = "idle"
    /\ lp' = LoopCall(d2d_step4_init(iv))
    /\ UNCHANGED <<coreVars, shellVars, ms, ct, hp>>

\* Lines 1601-1612: d2d returns.
LiveResult ==
    /\ cpc = "step4"
    /\ lp.pc = "done"
    /\ v' = d2d_result(lp.s)
    /\ cpc' = "to_chars"
    /\ UNCHANGED <<f, dec, iv, result, index, shellVars, auxVars>>

\* Lines 1815-1819 and 1849: d2s_buffered terminates the string and returns
\* to ryu_string, which goes on with p = buf.
LiveTerminate ==
    /\ fr[1].pc = "d2s"
    /\ cpc = "done"
    /\ fr' = [fr EXCEPT ![1] = [@ EXCEPT !.buf = Put(result, index, NUL),
                                         !.p = 0,
                                         !.pc = "sign"]]
    /\ UNCHANGED <<arg, wr, ret, coreVars, auxVars>>

\* The steps of ryu_string itself.
NextLiveShell ==
    \/ LiveCall
    \/ LiveDefault
    \/ LiveTerminate
    \/ (Sign(1) /\ UNCHANGED <<coreVars, auxVars>>)
    \/ (FindExp(1) /\ UNCHANGED <<coreVars, auxVars>>)
    \/ (SpecialPrep(1) /\ UNCHANGED <<coreVars, auxVars>>)
    \/ (CopyRest(1) /\ UNCHANGED <<coreVars, auxVars>>)
    \/ (SciPrep(1) /\ UNCHANGED <<coreVars, auxVars>>)
    \/ (SciFmt(1) /\ UNCHANGED <<coreVars, auxVars>>)
    \/ (FixPrep(1) /\ UNCHANGED <<coreVars, auxVars>>)
    \/ (FixNegLead(1) /\ UNCHANGED <<coreVars, auxVars>>)
    \/ (FixNegZeros(1) /\ UNCHANGED <<coreVars, auxVars>>)
    \/ (FixNegFirst(1) /\ UNCHANGED <<coreVars, auxVars>>)
    \/ (FixPosFirst(1) /\ UNCHANGED <<coreVars, auxVars>>)
    \/ (FixPosShift(1) /\ UNCHANGED <<coreVars, auxVars>>)
    \/ (FixPosFrac(1) /\ UNCHANGED <<coreVars, auxVars>>)
    \/ (Return(1) /\ UNCHANGED <<coreVars, auxVars>>)

\* The steps of d2s_buffered_n and d2d inside the call.
NextLiveCore ==
    \/ (CoreDecode /\ UNCHANGED <<shellVars, auxVars>>)
    \/ (CoreSpecial /\ UNCHANGED <<shellVars, auxVars>>)
    \/ (CoreSmallInt /\ UNCHANGED <<shellVars, auxVars>>)
    \/ (CoreStrip /\ UNCHANGED <<shellVars, auxVars>>)
    \/ (CoreStep3 /\ UNCHANGED <<shellVars, auxVars>>)
    \/ LiveStep4
    \/ (LoopBranch /\ UNCHANGED <<coreVars, shellVars, ms, ct, hp>>)
    \/ (GeneralLoop1 /\ UNCHANGED <<coreVars, shellVars, ms, ct, hp>>)
    \/ (GeneralLoop2 /\ UNCHANGED <<coreVars, shellVars, ms, ct, hp>>)
    \/ (GeneralOutput /\ UNCHANGED <<coreVars, shellVars, ms, ct, hp>>)
    \/ (CommonTwo /\ UNCHANGED <<coreVars, shellVars, ms, ct, hp>>)
    \/ (CommonLoop /\ UNCHANGED <<coreVars, shellVars, ms, ct, hp>>)
    \/ (CommonOutput /\ UNCHANGED <<coreVars, shellVars, ms, ct, hp>>)
    \/ LiveResult
    \/ (CoreToChars /\ UNCHANGED <<shellVars, auxVars>>)

NextLive == NextLiveShell \/ NextLiveCore

\* ENABLED <<NextLiveCore>>_vars as a state predicate: the conversion is
\* under way and its next step changes the state.  Every step but a pass of
\* a loop of step 4 moves cpc or lp.pc; a pass changes the state when its
\* body changes the locals, and the second loop going round on vm = 0 is
\* recorded once, in diverges, and changes nothing after that.
LiveCoreEnabled ==
    \/ cpc \in {"decode", "special", "small_int", "strip", "d2d", "to_chars"}
    \/ /\ cpc = "step4"
       /\ CASE lp.pc = "loop1" ->
                   d2d_loop_test(lp.s) => d2d_general_loop1_body(lp.s) # lp.s
            [] lp.pc = "loop" ->
                   d2d_loop_test(lp.s) => d2d_common_loop_body(lp.s) # lp.s
            [] lp.pc = "loop2" ->
                   d2d_general_loop2_test(lp.s) =>
                       IF BIsZero(lp.s.vm) THEN ~lp.s.diverges
                       ELSE d2d_general_loop2_body(lp.s) # lp.s
            [] OTHER -> TRUE

\* Weak fairness of NextLiveCore, WF_vars(NextLiveCore), with its enabling
\* condition written out as LiveCoreEnabled.
LiveCoreFairness == []<>(~LiveCoreEnabled) \/ []<><<NextLiveCore>>_vars

SpecLive ==
    InitLive /\ [][NextLive]_vars /\ WF_vars(NextLiveShell) /\ LiveCoreFairness

(***************************************************************************)
(* Exact decimal and binary arithmetic for the properties of the           *)
(* conversion.  A double with the bits f is m2 * 2^(e2 + 2); its rounding  *)
(* interval is taken from IEEE-754, not from the code: the half-way point  *)
(* to the next double above, and the half-way point to the next double     *)
(* below, which is at half the distance when f is a power of two above the *)
(* smallest normal binade.  All of them are multiples of 2^e2.             *)
(***************************************************************************)
\* 5^n for n < 25, and 5^n for any n as a product of these.
RECURSIVE Pow5Small(_)
Pow5Small(n) == IF n = 0 THEN <<1>> ELSE BMulSmall(Pow5Small(n - 1), 5)

RECURSIVE Pow5Of(_)
Pow5Of(n) ==
    IF n < 25 THEN Pow5Small(n) ELSE BMul(Pow5Small(25), Pow5Of(n - 25))

Pow5Seq == [n \in 1..(DOUBLE_POW5_INV_TABLE_SIZE + 9) |-> Pow5Of(n - 1)]

Pow5(n) == Pow5Seq[n + 1]

Pow10Seq == [n \in 1..20 |-> BPow10(n - 1)]

Pow10(n) == Pow10Seq[n + 1]

\* c * 10^k and M * 2^e2, both multiplied by 10^(-k0) * 2^(-e2) and by the
\* powers of 2 and 5 that make them integers (k >= k0).
DecScaled(c, k, k0, e2) ==
    BShl(BMul(BMul(c, Pow10(k - k0)), Pow5(Max(k0, 0))), Max(k0 - e2, 0))

BinScaled(M, k0, e2) ==
    BShl(BMul(M, Pow5(Max(-k0, 0))), Max(e2 - k0, 0))

ExactM2(bits) ==
    IF BitsExponent(bits) = 0 THEN BitsMantissa(bits)
    ELSE BAdd(BPow2(52), BitsMantissa(bits))

ExactE2(bits) ==
    (IF BitsExponent(bits) = 0 THEN 1 ELSE BitsExponent(bits)) - 1075 - 2

ExactMid(bits) == BMulSmall(ExactM2(bits), 4)

ExactHi(bits) == BAdd(ExactMid(bits), <<2>>)

ExactLo(bits) ==
    BSub(ExactMid(bits),
         IF BIsZero(BitsMantissa(bits)) /\ BitsExponent(bits) > 1
         THEN <<1>> ELSE <<2>>)

\* c * 10^k reads back as the double f under round-to-nearest-even.
RoundsTo(bits, c, k) ==
    LET e2 == ExactE2(bits)
        x  == DecScaled(c, k, k, e2)
        lo == BinScaled(ExactLo(bits), k, e2)
        hi == BinScaled(ExactHi(bits), k, e2)
    IN  IF BIsEven(ExactM2(bits))
        THEN BLe(lo, x) /\ BLe(x, hi)
        ELSE BLt(lo, x) /\ BLt(x, hi)

\* The number of decimal digits of c > 0.
DecLen(c) == CHOOSE n \in 1..19 : BLe(Pow10(n - 1), c) /\ BLt(c, Pow10(n))

RECURSIVE DropDigits(_, _)
DropDigits(c, j) == IF j = 0 THEN c ELSE DropDigits(BDivSmall(c, 10), j - 1)

\* The conversion of a finite nonzero double has returned.
Converted == cpc = "done" /\ ~IsSpecial(f)

\* C1 (round-trip): for every finite nonzero double, the decimal
\* mantissa * 10^exponent that d2d, or the small-integer path followed by
\* the stripping of zeros, produces lies in the rounding interval of the
\* double, the end points being admitted only when the binary mantissa is
\* even; so it reads back as the same double.
C1_RoundTrip == Converted => RoundsTo(f, v.mantissa, v.exponent)

\* A subnormal has gone through d2d and its decimal reads back.
C1_Witness ==
    /\ Converted
    /\ BitsExponent(f) = 0
    /\ iv # NoInterval
    /\ RoundsTo(f, v.mantissa, v.exponent)

\* C2 (shortest): no decimal with fewer significant digits than the
\* returned mantissa m (of n digits, at the exponent e) reads back as the
\* double.  A decimal of fewer than n digits at or next to m * 10^e is a
\* multiple of 10^(e + 1), and the multiples of 10^(e + 1) nearest to
\* m * 10^e are floor(m / 10) and floor(m / 10) + 1 at the exponent e + 1,
\* both of fewer than n digits; the interval being convex and holding
\* m * 10^e, it holds a shorter decimal exactly when it holds one of these
\* two.
C2_Shortest ==
    (Converted /\ DecLen(v.mantissa) > 1) =>
        /\ ~RoundsTo(f, DropDigits(v.mantissa, 1), v.exponent + 1)
        /\ ~RoundsTo(f, BAdd(DropDigits(v.mantissa, 1), <<1>>), v.exponent + 1)

\* d2d has returned a mantissa of 17 digits, so that there are shorter
\* decimals to exclude.
C2_Witness ==
    /\ Converted
    /\ iv # NoInterval
    /\ DecLen(v.mantissa) = 17

\* The decimal of the same number of digits just below m * 10^k.
DecPred(m, k) ==
    IF m = Pow10(DecLen(m) - 1)
    THEN [c |-> BSub(Pow10(DecLen(m)), <<1>>), k |-> k - 1]
    ELSE [c |-> BSub(m, <<1>>), k |-> k]

\* The decimal of the same number of digits just above m * 10^k.
DecSucc(m, k) ==
    IF BAdd(m, <<1>>) = Pow10(DecLen(m))
    THEN [c |-> Pow10(DecLen(m) - 1), k |-> k + 1]
    ELSE [c |-> BAdd(m, <<1>>), k |-> k]

\* The sign of (m * 10^k + y.c * 10^y.k) - 2 * f: where the middle of the
\* two decimals lies with respect to the double.
MiddleCmp(bits, m, k, y) ==
    LET k0 == Min(k, y.k)
        e2 == ExactE2(bits)
    IN  BCmp(DecScaled(BAdd(BMul(m, Pow10(k - k0)), BMul(y.c, Pow10(y.k - k0))),
                       k0, k0, e2),
             BinScaled(BMulSmall(ExactMid(bits), 2), k0, e2))

\* C3 (closest, ties to even): a decimal of the same number of digits as
\* the output that also reads back as the double is farther from the
\* double than the output, or exactly as far and then the last digit of
\* the output is even.  It is enough to look at the two decimals of that
\* length next to the output.
C3_Closest ==
    Converted =>
        /\ RoundsTo(f, DecPred(v.mantissa, v.exponent).c,
                       DecPred(v.mantissa, v.exponent).k)
           => \/ MiddleCmp(f, v.mantissa, v.exponent,
                           DecPred(v.mantissa, v.exponent)) < 0
              \/ /\ MiddleCmp(f, v.mantissa, v.exponent,
                              DecPred(v.mantissa, v.exponent)) = 0
                 /\ BIsEven(v.mantissa)
        /\ RoundsTo(f, DecSucc(v.mantissa, v.exponent).c,
                       DecSucc(v.mantissa, v.exponent).k)
           => \/ MiddleCmp(f, v.mantissa, v.exponent,
                           DecSucc(v.mantissa, v.exponent)) > 0
              \/ /\ MiddleCmp(f, v.mantissa, v.exponent,
                              DecSucc(v.mantissa, v.exponent)) = 0
                 /\ BIsEven(v.mantissa)

\* d2d has returned for a double exactly half-way between two decimals of
\* the output's length that both read back, and has chosen the even one.
C3_Witness ==
    /\ Converted
    /\ iv # NoInterval
    /\ BIsEven(v.mantissa)
    /\ \/ /\ RoundsTo(f, DecPred(v.mantissa, v.exponent).c,
                         DecPred(v.mantissa, v.exponent).k)
          /\ MiddleCmp(f, v.mantissa, v.exponent,
                       DecPred(v.mantissa, v.exponent)) = 0
       \/ /\ RoundsTo(f, DecSucc(v.mantissa, v.exponent).c,
                         DecSucc(v.mantissa, v.exponent).k)
          /\ MiddleCmp(f, v.mantissa, v.exponent,
                       DecSucc(v.mantissa, v.exponent)) = 0

(***************************************************************************)
(* Properties of ryu_string.                                               *)
(***************************************************************************)
\* Call c has returned.
Done(c) == fr[c].pc = "done"

\* The string held by a character array: its cells before the first 0.
Text(a) == SubSeq(a, 1, StrEnd(a, 0))

\* The buffer of call c is large enough for the whole output.
Roomy(c) == Done(c) /\ arg[c].nbytes > ret[c]

Supported == {"f", "e", "E"}

\* C4 (truncation law): when the first call, made with nbytes >= 1, has
\* returned r, its dst holds the first min(r, nbytes - 1) bytes of the
\* untruncated output (the string the second call leaves in a buffer large
\* enough) and then a 0 byte at index min(r, nbytes - 1); the copy is
\* partial exactly when r > nbytes - 1.
C4_Truncation ==
    (Done(1) /\ arg[1].nbytes >= 1 /\ Roomy(2)) =>
        /\ Min(ret[1], arg[1].nbytes - 1) <= Len(Text(wr[2].dst))
        /\ SubSeq(wr[1].dst, 1, Min(ret[1], arg[1].nbytes - 1))
           = SubSeq(Text(wr[2].dst), 1, Min(ret[1], arg[1].nbytes - 1))
        /\ Len(Text(wr[1].dst)) = Min(ret[1], arg[1].nbytes - 1)
        /\ At(wr[1].dst, Min(ret[1], arg[1].nbytes - 1)) = NUL
        /\ (Len(Text(wr[1].dst)) < Len(Text(wr[2].dst)))
           <=> (ret[1] > arg[1].nbytes - 1)

\* A call under 'f' has returned more than its buffer of at least two
\* bytes could hold, and the same output is known in full.
C4_Witness ==
    /\ Done(1)
    /\ Roomy(2)
    /\ arg[1].fmt = "f"
    /\ arg[1].nbytes >= 2
    /\ ret[1] > arg[1].nbytes - 1
    /\ wr[1].top = arg[1].nbytes

\* C5 (sizing law): the value returned depends on the double and the
\* format only: the two calls, which differ in dst and nbytes, return the
\* same value, in particular the call with dst = NULL and nbytes = 0 and
\* the call with a large buffer; and that value is the length of the full
\* output without its terminator.
C5_Sizing ==
    (Done(1) /\ Done(2)) =>
        /\ ret[1] = ret[2]
        /\ Roomy(2) => ret[2] = Len(Text(wr[2].dst))

\* The call with nbytes = 0 and the call with the large buffer have both
\* returned the length of an output longer than MaxNbytes.
C5_Witness ==
    /\ Done(1)
    /\ Roomy(2)
    /\ arg[1].nbytes = 0
    /\ ret[1] = ret[2]
    /\ ret[1] > MaxNbytes

\* C6 (destination bounds): in every state of every call, each store made
\* into dst so far was at an index < nbytes; with nbytes = 0 there was no
\* store at all.
C6_Bounds == \A c \in Calls : wr[c].top <= arg[c].nbytes

\* A call with nbytes = 0 has returned a positive length without a store.
C6_Witness ==
    /\ Done(1)
    /\ arg[1].nbytes = 0
    /\ ret[1] > 0
    /\ wr[1].top = 0

\* C7 (unsupported format): under a format byte other than 'f', 'e', 'E'
\* the call runs no conversion (buf holds the empty string and is
\* otherwise unwritten), returns 0 and, when nbytes >= 1, leaves the empty
\* string in dst.
C7_Unsupported ==
    \A c \in Calls :
        (arg[c].fmt \notin Supported /\ fr[c].pc # "enter") =>
            /\ fr[c].buf = Put(FreshBuf, 0, NUL)
            /\ Done(c) =>
                /\ ret[c] = 0
                /\ arg[c].nbytes >= 1 => At(wr[c].dst, 0) = NUL

\* A call under 'g' with a buffer has returned.
C7_Witness ==
    /\ Done(2)
    /\ arg[2].fmt = "g"
    /\ arg[2].nbytes = BufSize
    /\ ret[2] = 0
    /\ At(wr[2].dst, 0) = NUL

\* The string of a special value according to its bits.
SpecialText(bits) ==
    IF BitsExponent(bits) = 2047
    THEN IF ~BIsZero(BitsMantissa(bits)) THEN <<"N", "a", "N">>
         ELSE IF BitsSign(bits) THEN <<"-", "I", "n", "f", "i", "n", "i", "t", "y">>
         ELSE <<"I", "n", "f", "i", "n", "i", "t", "y">>
    ELSE IF BitsSign(bits) THEN <<"-", "0", "E", "0">>
    ELSE <<"0", "E", "0">>

\* C8 (special values): for bits with the biased exponent all ones the
\* conversion yields NaN, unsigned whatever the sign bit and the mantissa,
\* or Infinity / -Infinity when the mantissa is zero; for a biased exponent
\* of zero with mantissa zero it yields 0E0 / -0E0; and ryu_string emits
\* Infinity, -Infinity and NaN unchanged under 'f', 'e' and 'E'.
C8_Special ==
    \A c \in Calls :
        (arg[c].fmt \in Supported /\ IsSpecial(arg[c].d)) =>
            /\ fr[c].pc = "sign" => Text(fr[c].buf) = SpecialText(arg[c].d)
            /\ (Roomy(c) /\ BitsExponent(arg[c].d) = 2047)
               => Text(wr[c].dst) = SpecialText(arg[c].d)

\* A NaN with the sign bit set has been printed under 'f'.
C8_Witness ==
    /\ Roomy(2)
    /\ arg[2].fmt = "f"
    /\ BitsSign(arg[2].d)
    /\ BitsExponent(arg[2].d) = 2047
    /\ Text(wr[2].dst) = <<"N", "a", "N">>

\* The decimal digits of c, the most significant first.
RECURSIVE DigitsOf(_)
DigitsOf(c) ==
    IF BLt(c, <<10>>) THEN <<DigitChar(BToInt(c))>>
    ELSE Append(DigitsOf(BDivSmall(c, 10)), DigitChar(BModSmall(c, 10)))

Zeros(n) == [k \in 1..n |-> "0"]

SignText(bits) == IF BitsSign(bits) THEN <<"-">> ELSE <<>>

\* The canonical string of a decimal fd: its mantissa digits and the
\* exponent after its E.
CanonOf(fd) ==
    [digits |-> DigitsOf(fd.mantissa),
     exp |-> fd.exponent + DecLen(fd.mantissa) - 1]

\* The canonical string of a finite double; zero is 0E0.
Canon(bits) ==
    IF IsSpecial(bits) THEN [digits |-> <<"0">>, exp |-> 0]
    ELSE CanonOf(ToDecimal(BitsMantissa(bits), BitsExponent(bits)))

\* Call c has returned and no other call is under way: the states in which
\* the caller looks at what the call has left.
Returned(c) ==
    Done(c) /\ \A o \in Calls \ {c} : fr[o].pc \in {"enter", "done"}

\* Call c has printed a finite double or zero under 'f'.
FixReturned(c) ==
    /\ Returned(c)
    /\ arg[c].fmt = "f"
    /\ BitsExponent(arg[c].d) # 2047

\* "0.", |exp| - 1 zeros and the digits of the canonical string k.
FixNegText(bits, k) ==
    SignText(bits) \o <<"0", ".">> \o Zeros(-k.exp - 1) \o k.digits

FixNegHolds(c, k) ==
    k.exp < 0 =>
        /\ ret[c] = BoolToInt(BitsSign(arg[c].d)) + 2 + (-k.exp - 1) + Len(k.digits)
        /\ Roomy(c) => Text(wr[c].dst) = FixNegText(arg[c].d, k)

\* C9 ('f', negative canonical exponent exp): the output is the optional
\* '-', then "0.", then |exp| - 1 zeros, then all mantissa digits of the
\* canonical string in order; the value returned is
\* sign + 2 + (|exp| - 1) + the number of mantissa digits.
C9_FixNegative ==
    \A c \in Calls : FixReturned(c) => FixNegHolds(c, Canon(arg[c].d))

\* A negative double below 1/10 with several digits has been printed
\* under 'f' into the large buffer: "-0.0" and at least seven characters.
C9_Witness ==
    /\ Roomy(2)
    /\ arg[2].fmt = "f"
    /\ BitsExponent(arg[2].d) < 1019
    /\ ret[2] >= 7
    /\ SubSeq(wr[2].dst, 1, 4) = <<"-", "0", ".", "0">>

\* The digits of k with the decimal point moved right by its exponent.
FixPosText(bits, k) ==
    SignText(bits) \o
    (IF k.exp >= Len(k.digits) - 1
     THEN k.digits \o Zeros(k.exp - (Len(k.digits) - 1))
     ELSE SubSeq(k.digits, 1, k.exp + 1) \o <<".">>
          \o SubSeq(k.digits, k.exp + 2, Len(k.digits)))

HasDot(t) == \E j \in 1..Len(t) : t[j] = "."

DotAt(t) == CHOOSE j \in 1..Len(t) : t[j] = "."

\* The text t does not end in '.', has no fraction made of zeros only,
\* and has no '.' when whole is true.
FixPosShape(t, whole) ==
    /\ t[Len(t)] # "."
    /\ HasDot(t) => \E j \in (DotAt(t) + 1)..Len(t) : t[j] # "0"
    /\ whole => ~HasDot(t)

FixPosHolds(c, k) ==
    k.exp >= 0 =>
        /\ ret[c] = Len(FixPosText(arg[c].d, k))
        /\ Roomy(c) =>
            /\ Text(wr[c].dst) = FixPosText(arg[c].d, k)
            /\ FixPosShape(Text(wr[c].dst), k.exp >= Len(k.digits) - 1)

\* C10 ('f', canonical exponent exp >= 0, zero included): the output is
\* the mantissa digits with the decimal point moved right by exp places,
\* padded with zeros when there are fewer than exp fraction digits; it
\* never ends in '.', never has a fraction made of zeros only, and a whole
\* number, +0 and -0 included, has no '.' at all.
C10_FixNonNegative ==
    \A c \in Calls : FixReturned(c) => FixPosHolds(c, Canon(arg[c].d))

\* A double of at least 100 with digits on both sides of the point has
\* been printed under 'f' into the large buffer.
C10_Witness ==
    /\ Roomy(2)
    /\ arg[2].fmt = "f"
    /\ BitsExponent(arg[2].d) \in 1030..1075
    /\ HasDot(Text(wr[2].dst))
    /\ DotAt(Text(wr[2].dst)) >= 4

(***************************************************************************)
(* Formats 'e' and 'E'.                                                    *)
(***************************************************************************)
\* Call c has printed a finite double or zero under 'e' or 'E'.
SciReturned(c) ==
    /\ Returned(c)
    /\ arg[c].fmt \in {"e", "E"}
    /\ BitsExponent(arg[c].d) # 2047

\* The string s with every E replaced by the byte fmt.
WithExponentChar(s, fmt) ==
    [k \in 1..Len(s) |-> IF s[k] = "E" THEN fmt ELSE s[k]]

\* The first n characters of s, all of s when it is shorter.
Prefix(s, n) == SubSeq(s, 1, Min(n, Len(s)))

\* s is the canonical string d2s_buffered leaves for the double of call c:
\* it has one E, the call returned its length, and dst holds it with the E
\* replaced by fmt, cut to nbytes - 1 characters when dst is shorter.
SciHolds(c, s) ==
    /\ Cardinality({k \in 1..Len(s) : s[k] = "E"}) = 1
    /\ ret[c] = Len(s)
    /\ Roomy(c) => Text(wr[c].dst) = WithExponentChar(s, arg[c].fmt)
    /\ arg[c].nbytes > 0 =>
           Text(wr[c].dst)
               = Prefix(WithExponentChar(s, arg[c].fmt), arg[c].nbytes - 1)

\* C11 ('e' and 'E'): for every finite double the output of ryu_string is
\* the canonical scientific string with its single E replaced by the format
\* byte and every other character unchanged and in place; the value
\* returned is the length of the canonical string.
C11_Scientific ==
    \A c \in Calls :
        SciReturned(c) => SciHolds(c, Text(d2s_buffered(arg[c].d, FreshBuf)))

\* -0.01 under 'e' in a buffer large enough: "-1e-2".
C11_Witness ==
    /\ SciReturned(2)
    /\ Roomy(2)
    /\ arg[2].fmt = "e"
    /\ Text(wr[2].dst) = <<"-", "1", "e", "-", "2">>

(***************************************************************************)
(* Properties of the decimal handed to to_chars and of the canonical       *)
(* string.                                                                 *)
(***************************************************************************)
\* The double f is +0 or -0.
IsZeroBits(bits) == BitsExponent(bits) = 0 /\ BIsZero(BitsMantissa(bits))

\* The double f is finite and not zero.
FiniteNonzero(bits) == BitsExponent(bits) # 2047 /\ ~IsZeroBits(bits)

\* The characters d2s_buffered_n has written.
Written == SubSeq(result, 1, index)

\* The index of the first E of s.
FirstE(s) == CHOOSE k \in 1..Len(s) : s[k] = "E" /\ \A j \in 1..(k - 1) : s[j] # "E"

\* The mantissa digits of a canonical string: its digits before the E.
MantissaDigits(s) == SelectSeq(SubSeq(s, 1, FirstE(s) - 1), IsDigit)

\* C12 (no trailing zeros): for every finite nonzero double the mantissa
\* handed to to_chars, by d2d or by the fast path after zero stripping, is
\* not zero and not divisible by 10, so the mantissa digits of the canonical
\* string do not end in 0; the mantissa is the single digit 0 for +0 and -0
\* and for no other double.
C12_NoTrailingZeros ==
    /\ cpc = "to_chars" =>
           /\ ~BIsZero(v.mantissa)
           /\ BModSmall(v.mantissa, 10) # 0
    /\ (cpc = "done" /\ FiniteNonzero(f)) =>
           /\ MantissaDigits(Written)[Len(MantissaDigits(Written))] # "0"
           /\ MantissaDigits(Written) = DigitsOf(v.mantissa)
    /\ (cpc = "done" /\ BitsExponent(f) # 2047) =>
           (MantissaDigits(Written) = <<"0">> <=> IsZeroBits(f))

\* 2 * 5^22 = 4768371582031250 on the fast path: one zero stripped, 5^21
\* handed to to_chars with the exponent 1.
C12_Witness ==
    /\ cpc = "to_chars"
    /\ iv = NoInterval
    /\ v.exponent = 1
    /\ v.mantissa = Pow5(21)

(***************************************************************************)
(* The canonical serializer.                                               *)
(***************************************************************************)
\* The decimal digits of the natural number n, without leading zeros.
RECURSIVE NatText(_)
NatText(n) ==
    IF n < 10 THEN <<DigitChar(n)>>
    ELSE Append(NatText(n \div 10), DigitChar(n % 10))

\* The exponent as printed: '-' when negative, then its digits.
ExpText(exp) == IF exp < 0 THEN <<"-">> \o NatText(-exp) ELSE NatText(exp)

\* Optional '-', the first digit, '.' and the other digits when there are
\* any, 'E' and the exponent e10 + olength - 1.
SerialText(sign, digits, e10) ==
    (IF sign THEN <<"-">> ELSE <<>>)
    \o <<Head(digits)>>
    \o (IF Len(digits) > 1 THEN <<".">> \o Tail(digits) ELSE <<>>)
    \o <<"E">>
    \o ExpText(e10 + Len(digits) - 1)

\* C13 (canonical serializer): for a mantissa m of 1 to 17 digits to_chars
\* writes optional '-', the first digit of m, '.' and the other digits only
\* when there are any, 'E', and e10 + olength - 1 with '-' if negative and
\* with 1, 2 or 3 digits and no leading zero; the digits are those of m in
\* order, the index returned is the number of bytes written, and no other
\* cell of result is written.
C13_Serializer ==
    (cpc = "done" /\ ~BIsZero(v.mantissa)) =>
        /\ Len(DigitsOf(v.mantissa)) \in 1..17
        /\ Written = SerialText(dec.ieeeSign, DigitsOf(v.mantissa), v.exponent)
        /\ Len(NatText(IF v.exponent + Len(DigitsOf(v.mantissa)) - 1 < 0
                       THEN -(v.exponent + Len(DigitsOf(v.mantissa)) - 1)
                       ELSE v.exponent + Len(DigitsOf(v.mantissa)) - 1)) \in 1..3
        /\ \A k \in (index + 1)..BufLen : result[k] = Uninit

\* 12345678901234567 with e10 = -17 and the sign: "-1.2345678901234567E-1".
C13_Witness ==
    /\ cpc = "done"
    /\ f = <<>>
    /\ v = [mantissa |-> CharsPattern(17), exponent |-> -17]
    /\ Written = <<"-", "1", ".", "2", "3", "4", "5", "6", "7", "8", "9", "0",
                   "1", "2", "3", "4", "5", "6", "7", "E", "-", "1">>

(***************************************************************************)
(* Reentrancy.                                                             *)
(***************************************************************************)
\* w is the writer a call with the arguments of call c has, run alone, when
\* it reaches write_nullterm: call c has the same writer at that point, and
\* once it has returned, the same return value and the same dst.
AloneHolds(c, w) ==
    /\ fr[c].pc = "term" => wr[c] = w
    /\ Done(c) =>
           /\ ret[c] = ryu_string_end(w).ret
           /\ wr[c] = ryu_string_end(w).w

\* C14 (reentrancy): calls of ryu_string running at the same time on
\* distinct destination buffers, their steps interleaved in any order, each
\* return the value and leave the buffer contents that the same call
\* returns and leaves when run alone.  (The tables are definitions of the
\* model, which no action can change.)
C14_Reentrant ==
    \A c \in Calls :
        fr[c].pc \in {"term", "done"} =>
            AloneHolds(c, ryu_string_run(arg[c].d, arg[c].fmt, arg[c].nbytes))

\* Both calls are about to return, so they overlapped: -0.015 under 'f'
\* into 3 bytes and 10.5 under 'e' into a large buffer.
C14_Witness ==
    /\ fr[1].pc = "term"
    /\ fr[2].pc = "term"
    /\ arg[1].fmt = "f"
    /\ arg[1].nbytes = ParNbytes
    /\ wr[1].count = 6
    /\ arg[2].fmt = "e"
    /\ arg[2].nbytes = BufSize
    /\ SubSeq(wr[2].dst, 1, 6) = <<"1", ".", "0", "5", "e", "1">>

(***************************************************************************)
(* The assertions and the ranges of the conversion.                        *)
(***************************************************************************)
\* d2d has run steps 2 and 3 of the conversion of f.
Stepped == cpc \in {"step4", "to_chars", "done"} /\ iv # NoInterval

\* C15 (the core cannot fail): no assertion of the conversion is violated:
\* pow5bits is called with 0 <= e <= 3528, log10Pow2 with 0 <= e <= 1650,
\* log10Pow5 with 0 <= e <= 2620, pow5Factor and multipleOfPowerOf2 with
\* value != 0 and p < 64, shiftright128 with 0 < dist < 64, and
\* decimalLength17 with v < 10^17.
C15_NoAssertFails ==
    /\ Stepped => d2d_asserts(iv, d2d_m2(dec.ieeeMantissa, dec.ieeeExponent))
    /\ (cpc \in {"to_chars", "done"} /\ ~IsSpecial(f)) =>
           decimalLength17_asserts(v.mantissa)

\* The largest double, on which log10Pow2 is called with its largest
\* argument, 969, and pow5Factor is not called.
C15_Witness ==
    /\ cpc = "done"
    /\ Stepped
    /\ dec.ieeeExponent = 2046
    /\ dec.ieeeMantissa = BSub(BPow2(DOUBLE_MANTISSA_BITS), <<1>>)
    /\ iv.e2 = 969
    /\ iv.q = 290

\* d2s_buffered_n holds the decimal of a finite nonzero double: v is what
\* the conversion returned and hands to to_chars.
Decimal == cpc \in {"to_chars", "done"} /\ FiniteNonzero(f)

\* C16 (decimal result range): for every finite nonzero double the
\* (mantissa, exponent) pair returned by the conversion satisfies
\* 1 <= mantissa < 10^17 and -324 <= exponent <= 308.
C16_DecimalRange ==
    Decimal =>
        /\ BLe(<<1>>, v.mantissa)
        /\ BLt(v.mantissa, Pow10(17))
        /\ -324 <= v.exponent
        /\ v.exponent <= 308

\* 1e308, the double with the largest decimal exponent: mantissa 1.
C16_Witness ==
    /\ Decimal
    /\ cpc = "done"
    /\ Stepped
    /\ v = [mantissa |-> <<1>>, exponent |-> 308]

\* d2s_buffered_n has written the canonical string of a finite double.
Printed == cpc = "done" /\ BitsExponent(f) # 2047

\* The exponent printed after the E, read as ryu_string reads it:
\* atoi(e + 1).
PrintedExponent == atoi(result, FirstE(Written))

\* C17 as stated (canonical exponent range): for every finite double the
\* exponent printed after E lies in [-323, 308].  It does not hold: the
\* smallest subnormal is printed 5E-324.
C17_ExponentRange323 ==
    Printed => (-323 <= PrintedExponent /\ PrintedExponent <= 308)

\* C17, amended: for every finite double the exponent printed after E is
\* e10 + olength - 1 (0 for zero) and lies in [-324, 308].
C17_ExponentRange ==
    Printed =>
        /\ -324 <= PrintedExponent
        /\ PrintedExponent <= 308
        /\ PrintedExponent =
               IF IsZeroBits(f) THEN 0
               ELSE v.exponent + Len(DigitsOf(v.mantissa)) - 1

\* The smallest subnormal, 2^-1074: "5E-324".
C17_Witness ==
    /\ Printed
    /\ dec.ieeeExponent = 0
    /\ dec.ieeeMantissa = <<1>>
    /\ Written = <<"5", "E", "-", "3", "2", "4">>
    /\ PrintedExponent = -324

(***************************************************************************)
(* The multiplication and shift.                                           *)
(***************************************************************************)
\* floor(x * t / 2^j) for the table entry t = mul[0] + 2^64 * mul[1].
ExactShift(x, mul, j) == BShr(BMul(x, BAdd(mul[1], BShl(mul[2], 64))), j)

\* The three multiplicands of a call: 4m, 4m + 2 and 4m - 1 - mmShift.
Multiplicands(m, mmShift) ==
    [vr |-> BShl(m, 2),
     vp |-> BAdd(BShl(m, 2), <<2>>),
     vm |-> BSub(BShl(m, 2), BFromInt(1 + mmShift))]

\* out[k] = Shifted(x[k]) for the three results of a call.
TripleIs(out, x, Shifted(_)) ==
    /\ out.vr = Shifted(x.vr)
    /\ out.vp = Shifted(x.vp)
    /\ out.vm = Shifted(x.vm)

\* The call of ms has returned.
MulDone == ms.pc = "done"

\* C18 (the multiply-shift back-ends are equivalent): for the arguments m,
\* table entry and shift j of every call d2d makes, mulShift64 returns
\* floor(x * t / 2^j) for x = 4m, 4m + 2 and 4m - 1 - mmShift in the
\* 128-bit, the intrinsic and the 64-bit-only version, and the 64-bit-only
\* mulShiftAll64 returns the triple of three calls of mulShift64; hence the
\* call returns the same triple in the three builds.  Each build is held
\* against the exact quotients and against its own mulShift64.
C18_BackEnds ==
    MulDone =>
        LET x == Multiplicands(ms.m, ms.mmShift)
            Exact(y) == ExactShift(y, ms.mul, ms.j)
            M128(y) == mulShift64(y, ms.mul, ms.j)
            MIntr(y) == mulShift64_intrinsic(y, ms.mul, ms.j)
            M64(y) == mulShift64_64(y, ms.mul, ms.j)
        IN  /\ TripleIs(ms.out, x, Exact)
            /\ ms.build = "uint128" => TripleIs(ms.out, x, M128)
            /\ ms.build = "intrinsics" => TripleIs(ms.out, x, MIntr)
            /\ ms.build = "64" => TripleIs(ms.out, x, M64)

\* 2^54 (biased exponent 1077, mantissa 0) in the 64-bit-only build: q = 0,
\* the table entry is 2^125 + 1, j = 125 and mmShift = 0.
C18_Witness ==
    /\ MulDone
    /\ ms.build = "64"
    /\ ms.mmShift = 0
    /\ ms.m = BPow2(52)
    /\ ms.j = 125
    /\ ms.out = [vr |-> BPow2(54),
                 vp |-> BAdd(BPow2(54), <<2>>),
                 vm |-> BSub(BPow2(54), <<1>>)]


(***************************************************************************)
(* C19: the operands of the multiply-shift.                                *)
(***************************************************************************)
\* The 128-bit value mul[0] + 2^64 * mul[1] of a table entry.
Entry128(mul) == BAdd(mul[1], BShl(mul[2], 64))

\* The three multiplicands of a call are below 2^55.
MultiplicandsBelow55(x) ==
    /\ BLt(x.vr, BPow2(55))
    /\ BLt(x.vp, BPow2(55))
    /\ BLt(x.vm, BPow2(55))

\* The operands of the call c: multiplicands below 2^55, the table entry
\* below top with its high limb below hiTop, the shift in [116, 180].
OperandsWithin(c, top, hiTop) ==
    /\ MultiplicandsBelow55(Multiplicands(c.m, c.mmShift))
    /\ BLt(Entry128(c.mul), top)
    /\ BLt(c.mul[2], hiTop)
    /\ 116 <= c.j
    /\ c.j <= 180

\* The call of mulShiftAll64 made by the conversion in progress.
TheCall == d2d_call(iv, d2d_m2(dec.ieeeMantissa, dec.ieeeExponent))

TableDone == ct.pc = "done"

\* The entry of the full table the call stands for.
FullEntry ==
    IF ct.fn = "double_computePow5"
    THEN DOUBLE_POW5_SPLIT[ct.i + 1]
    ELSE DOUBLE_POW5_INV_SPLIT[ct.i + 1]

\* The call read only inside its tables and produced both limbs of the
\* full-table entry.
EqualsFull == ct.inside /\ ct.out = FullEntry

\* C20 as stated (compact tables equal full tables): for every index i in
\* 0..325, double_computePow5(i) yields both limbs of DOUBLE_POW5_SPLIT[i],
\* and for every index i in 0..341, double_computeInvPow5(i) yields both
\* limbs of DOUBLE_POW5_INV_SPLIT[i], with every read of the anchor, power
\* and offset tables inside the table.
C20_CompactEqualsFull342 == TableDone => EqualsFull

\* C20, amended (compact tables equal full tables): the same for
\* double_computePow5 on every index in 0..325, and for
\* double_computeInvPow5 on every index in 0..291.
C20_CompactEqualsFull ==
    (TableDone /\ (ct.fn = "double_computeInvPow5" => ct.i <= 291)) =>
        EqualsFull

\* double_computeInvPow5(291) in the build without uint128_t: an
\* interpolated entry (offset 21 from the anchor of 5^-312), the last
\* index at which the result equals the full table's.
C20_Witness ==
    /\ TableDone
    /\ ct.fn = "double_computeInvPow5"
    /\ ct.build = "64"
    /\ ct.i = 291
    /\ InvPow5Offset(ct.i) = 21
    /\ ct.inside
    /\ ct.out = DOUBLE_POW5_INV_SPLIT[292]


(***************************************************************************)
(* C21: the indices of the full tables.                                    *)
(***************************************************************************)
\* d2d is about to run on the decoded double: step 1 gives e2, and the
\* index of the table read of step 3 follows from e2 alone.
AtD2d == cpc = "d2d"

\* The index is inside the table d2d reads with it: q in 0..341 of the
\* inverse table when e2 >= 0, i in 0..325 of the power table when e2 < 0.
IndexInRange(e2, k) ==
    IF e2 >= 0
    THEN 0 <= k /\ k <= DOUBLE_POW5_INV_TABLE_SIZE - 1
    ELSE 0 <= k /\ k <= DOUBLE_POW5_TABLE_SIZE - 1

IndexOf(e2) == IF e2 >= 0 THEN d2d_q(e2) ELSE d2d_i(e2)

\* C21 (table indices stay in range): for every finite nonzero double, the
\* index q used to read the inverse table in the e2 >= 0 branch satisfies
\* 0 <= q <= 341 and the index i = -e2 - q used to read the power table in
\* the e2 < 0 branch satisfies 0 <= i <= 325: both before the read, from
\* e2, and as recorded by the step that made the read.
C21_IndexInRange ==
    /\ AtD2d => IndexInRange(d2d_e2(dec.ieeeExponent),
                             IndexOf(d2d_e2(dec.ieeeExponent)))
    /\ Stepped => /\ IndexInRange(iv.e2, iv.index)
                  /\ iv.index = IndexOf(iv.e2)

\* The smallest subnormal: e2 = -1076, q = 751, and the last entry of the
\* power table, i = 325, is read.
C21_Witness ==
    /\ Stepped
    /\ dec.ieeeExponent = 0
    /\ dec.ieeeMantissa = <<1>>
    /\ iv.e2 = -1076
    /\ iv.q = 751
    /\ iv.index = DOUBLE_POW5_TABLE_SIZE - 1


(***************************************************************************)
(* C22: the ordering of the interval.                                      *)
(***************************************************************************)
\* vm <= vr <= vp
Ordered(s) == BLe(s.vm, s.vr) /\ BLe(s.vr, s.vp)

\* vm < vr <= vp
StrictlyOrdered(s) == BLt(s.vm, s.vr) /\ BLe(s.vr, s.vp)

\* Step 4 is running or has returned.
InStep4 == lp.pc # "idle"

\* C22 (interval ordering): for every finite nonzero double, the triple
\* produced by step 3 of d2d (after the optional decrement of v+) satisfies
\* v- < v <= v+, and every iteration of the digit-removal loops keeps
\* v- <= v <= v+.  The passes of the model are those of the source: when
\* step 4 has returned, its locals are those of d2d_remove on the triple.
C22_IntervalOrdered ==
    InStep4 =>
        /\ StrictlyOrdered(lp.s0)
        /\ Ordered(lp.s)
        /\ lp.pc = "done" => lp.s = d2d_remove(lp.s0)

\* 1.27355309233024E20 in the second loop of the general path: digits have
\* been removed, another pass is due, and the triple is still in order.
C22_Witness ==
    /\ lp.pc = "loop2"
    /\ lp.s.removed > 1
    /\ lp.s.vmIsTrailingZeros
    /\ d2d_general_loop2_test(lp.s)
    /\ StrictlyOrdered(lp.s0)
    /\ Ordered(lp.s)


(***************************************************************************)
(* C23: the trailing-zero flags of the negative-exponent branch, q <= 1.   *)
(***************************************************************************)
\* Step 3 took the branch e2 < 0 with q <= 1.
NegSmallQ == Stepped /\ iv.e2 < 0 /\ iv.q <= 1

\* mmShift of the double being converted: 1 unless it is a power of two
\* with a biased exponent above 1.
MmShiftOf(d) ==
    IF d.ieeeMantissa # <<>> \/ d.ieeeExponent <= 1 THEN 1 ELSE 0

\* vp as mulShiftAll64 returns it, before step 3 may decrement it.
ComputedVp(c) == mulShiftAll64(c.m, c.mul, c.j, c.mmShift).vp

\* vp is the computed value less k.
VpLess(k) == iv.vp = BSub(ComputedVp(TheCall), BFromInt(k))

\* C23 as stated (negative-exponent branch with q <= 1): v is always marked
\* trailing-zero; v- is marked trailing-zero iff mmShift = 1; otherwise v+
\* is decremented by 1.
C23_SmallQFlagsByMmShift ==
    NegSmallQ =>
        /\ iv.vrIsTrailingZeros
        /\ iv.vmIsTrailingZeros <=> MmShiftOf(dec) = 1
        /\ IF MmShiftOf(dec) = 1 THEN VpLess(0) ELSE VpLess(1)

\* C23, amended (negative-exponent branch with q <= 1): v is always marked
\* trailing-zero; when acceptBounds, v- is marked trailing-zero iff
\* mmShift = 1 and v+ is kept; otherwise v- is not marked and v+ is
\* decremented by 1.
C23_SmallQFlags ==
    NegSmallQ =>
        /\ iv.vrIsTrailingZeros
        /\ IF BIsEven(d2d_m2(dec.ieeeMantissa, dec.ieeeExponent))
           THEN /\ iv.vmIsTrailingZeros <=> MmShiftOf(dec) = 1
                /\ VpLess(0)
           ELSE /\ ~iv.vmIsTrailingZeros
                /\ VpLess(1)

\* 9007199254740994.0, the odd mantissa 1 with biased exponent 1076
\* (e2 = -1, q = 0): mmShift = 1, yet v- is not marked and v+ is
\* decremented, because the bounds are not accepted.
C23_Witness ==
    /\ NegSmallQ
    /\ dec.ieeeExponent = 1076
    /\ dec.ieeeMantissa = <<1>>
    /\ iv.e2 = -1
    /\ iv.q = 0
    /\ iv.mmShift = 1
    /\ ~iv.acceptBounds
    /\ iv.vrIsTrailingZeros
    /\ ~iv.vmIsTrailingZeros
    /\ VpLess(1)


(***************************************************************************)
(* C24: the small-integer fast path.                                       *)
(***************************************************************************)
\* The double decoded as d is m2 * 2^e2 with 2^52 <= m2 < 2^53 when it is
\* normal; e2 as d2d_small_int counts it.
SmallE2(d) == d.ieeeExponent - DOUBLE_BIAS - DOUBLE_MANTISSA_BITS

SmallM2(d) == BAdd(BPow2(DOUBLE_MANTISSA_BITS), d.ieeeMantissa)

\* floor(m2 / 2^-e2), for e2 <= 0.
IntegerPart(d) == BShr(SmallM2(d), -SmallE2(d))

\* The value of the double is an exact integer in [1, 2^53): it is normal,
\* -52 <= e2 <= 0, and m2 is a multiple of 2^-e2.
IsSmallInteger(d) ==
    /\ d.ieeeExponent # 0
    /\ -52 <= SmallE2(d)
    /\ SmallE2(d) <= 0
    /\ BShl(IntegerPart(d), -SmallE2(d)) = SmallM2(d)

\* mantissa * 10^exponent
DecimalValue(w) == BMul(Pow10(w.exponent), w.mantissa)

\* The fast path has finished stripping: v goes to to_chars without d2d.
FastDone == cpc = "to_chars" /\ iv = NoInterval

\* C24 (small-integer fast path): d2d_small_int accepts exactly the inputs
\* whose value is an exact integer in [1, 2^53), returning mantissa =
\* m2 >> -e2 and exponent = 0, and declines every input with e2 > 0 or
\* e2 < -52 (including all subnormals); the zero-stripping loop that
\* follows keeps mantissa * 10^exponent equal to that integer and stops
\* with mantissa not divisible by 10.
C24_SmallInt ==
    /\ cpc = "strip" =>
           /\ IsSmallInteger(dec)
           /\ d2d_small_int(dec.ieeeMantissa, dec.ieeeExponent)
                  = [ok |-> TRUE,
                     v |-> [mantissa |-> IntegerPart(dec), exponent |-> 0]]
           /\ DecimalValue(v) = IntegerPart(dec)
    /\ cpc = "d2d" =>
           /\ ~IsSmallInteger(dec)
           /\ ~d2d_small_int(dec.ieeeMantissa, dec.ieeeExponent).ok
    /\ (cpc \in {"strip", "d2d"}
            /\ (SmallE2(dec) > 0 \/ SmallE2(dec) < -52 \/ dec.ieeeExponent = 0)) =>
           cpc = "d2d"
    /\ FastDone =>
           /\ DecimalValue(v) = IntegerPart(dec)
           /\ BModSmall(v.mantissa, 10) # 0

\* 2 * 5^22 = 4768371582031250 in the stripping loop, one zero stripped:
\* 476837158203125 * 10^1 is still the integer d2d_small_int returned.
C24_Witness ==
    /\ cpc = "strip"
    /\ IsSmallInteger(dec)
    /\ v.exponent = 1
    /\ v.mantissa = Pow5(21)
    /\ IntegerPart(dec) = BMulSmall(Pow5(22), 2)
    /\ DecimalValue(v) = IntegerPart(dec)


(***************************************************************************)
(* The integer helpers on their own: pow5bits on 0, 1, 2, ... up to the    *)
(* largest argument its assertion admits, 5^e being carried along, and     *)
(* pow5Factor and multipleOfPowerOf5 on nonzero 64-bit values.             *)
(***************************************************************************)
\* uint64_t values: every c * 5^k below 2^64 with c in 1..3, the integers
\* 1..30, and the values around the constants of pow5Factor: n_div_5 and
\* n_div_5 + 1, m_inv_5, 2^63, 2^64 - 2 and 2^64 - 1 = 5 * n_div_5.
FactorInputs ==
    {x \in {BMulSmall(Pow5Small(k), c) : k \in 0..27, c \in 1..3} :
        BLt(x, BPow2(64))}
    \cup {BFromInt(k) : k \in 1..30}
    \cup {n_div_5, <<13108, 26214, 19660, 6553, 3>>, m_inv_5, BPow2(63),
          <<32766, 32767, 32767, 32767, 15>>,
          <<32767, 32767, 32767, 32767, 15>>}

\* The exponents p of multipleOfPowerOf5: 5^27 < 2^64 < 5^28.
FactorPowers == 0..28

HelperCall(fn, value, p) ==
    [pc |-> "call", fn |-> fn, e |-> 0, pow |-> <<1>>, value |-> value,
     p |-> p, count |-> 0, multiple |-> FALSE]

InitHelpers ==
    /\ IdleCore
    /\ IdleShell
    /\ ms = IdleMul
    /\ ct = IdleTable
    /\ lp = IdleLoop
    /\ \/ hp = HelperCall("pow5bits", <<>>, 0)
       \/ \E x \in FactorInputs : hp = HelperCall("pow5Factor", x, 0)
       \/ \E x \in FactorInputs, p \in FactorPowers :
              hp = HelperCall("multipleOfPowerOf5", x, p)

\* Lines 68-76.
Pow5bitsCall ==
    /\ hp.pc = "call"
    /\ hp.fn = "pow5bits"
    /\ hp' = [hp EXCEPT !.count = pow5bits(hp.e), !.pc = "done"]

\* The next argument, up to the 3528 of the assertion of line 74.
Pow5bitsNext ==
    /\ hp.pc = "done"
    /\ hp.fn = "pow5bits"
    /\ hp.e < 3528
    /\ hp' = [hp EXCEPT !.e = @ + 1, !.pow = BMulSmall(@, 5), !.pc = "call"]

\* Lines 313-325.
Pow5FactorCall ==
    /\ hp.pc = "call"
    /\ hp.fn = "pow5Factor"
    /\ hp' = [hp EXCEPT !.count = pow5Factor(hp.value), !.pc = "done"]

\* Lines 328-331.
MultipleOfPowerOf5Call ==
    /\ hp.pc = "call"
    /\ hp.fn = "multipleOfPowerOf5"
    /\ hp' = [hp EXCEPT !.multiple = multipleOfPowerOf5(hp.value, hp.p),
                        !.pc = "done"]

NextHelpers ==
    \/ (Pow5bitsCall /\ UNCHANGED <<coreVars, shellVars, ms, ct, lp>>)
    \/ (Pow5bitsNext /\ UNCHANGED <<coreVars, shellVars, ms, ct, lp>>)
    \/ (Pow5FactorCall /\ UNCHANGED <<coreVars, shellVars, ms, ct, lp>>)
    \/ (MultipleOfPowerOf5Call /\ UNCHANGED <<coreVars, shellVars, ms, ct, lp>>)

SpecHelpers == InitHelpers /\ [][NextHelpers]_vars

(***************************************************************************)
(* pow5bits.                                                               *)
(***************************************************************************)
\* The number of bits of a positive integer.
RECURSIVE BitsOfLimb(_)
BitsOfLimb(x) == IF x = 0 THEN 0 ELSE 1 + BitsOfLimb(x \div 2)

BitLen(a) == IF a = <<>> THEN 0 ELSE 15 * (Len(a) - 1) + BitsOfLimb(a[Len(a)])

\* ceil(log2(a)) for a >= 1: the bit length, less one when a is a power of
\* two.
CeilLog2(a) == IF a = BPow2(BitLen(a) - 1) THEN BitLen(a) - 1 ELSE BitLen(a)

Pow5bitsDone == hp.fn = "pow5bits" /\ hp.pc = "done"

\* C25: for every e in 0..3528, the product e * 1217359 is below 2^32, and
\* pow5bits(e), computed in 32 bits, is ceil(log2(5^e)) when e >= 1 and 1
\* when e = 0.
C25_Pow5bits ==
    Pow5bitsDone =>
        /\ hp.e \in 0..3528
        /\ BLt(BMul(BFromInt(hp.e), BFromInt(1217359)), BPow2(32))
        /\ hp.count = (IF hp.e = 0 THEN 1 ELSE CeilLog2(hp.pow))

\* pow5bits(3528) = 8192 has been computed: 5^3528 has 8192 bits.
C25_Witness ==
    /\ Pow5bitsDone
    /\ hp.e = 3528
    /\ hp.count = 8192
    /\ BitLen(hp.pow) = 8192


(***************************************************************************)
(* pow5Factor and multipleOfPowerOf5.                                      *)
(***************************************************************************)
\* The number of times 5 divides n, for n # 0, by exact division.
RECURSIVE ExactFactor(_)
ExactFactor(n) ==
    IF BModSmall(n, 5) # 0 THEN 0 ELSE 1 + ExactFactor(BDivSmall(n, 5))

\* 5^p divides n: n is 5^p times the quotient of p divisions by 5.
RECURSIVE DivideBy5(_, _)
DivideBy5(n, p) == IF p = 0 THEN n ELSE DivideBy5(BDivSmall(n, 5), p - 1)

Pow5Divides(p, n) == BMul(DivideBy5(n, p), Pow5(p)) = n

Pow5FactorDone == hp.pc = "done" /\ hp.fn \in {"pow5Factor", "multipleOfPowerOf5"}

\* C26: for every nonzero 64-bit n, pow5Factor(n) is the exact number of
\* times 5 divides n, and multipleOfPowerOf5(n, p) is true exactly when 5^p
\* divides n.
C26_Pow5Factor ==
    Pow5FactorDone =>
        /\ ~BIsZero(hp.value)
        /\ BLt(hp.value, BPow2(64))
        /\ hp.fn = "pow5Factor" => hp.count = ExactFactor(hp.value)
        /\ hp.fn = "multipleOfPowerOf5" =>
               hp.multiple = Pow5Divides(hp.p, hp.value)

\* pow5Factor has returned 1 for 2^64 - 1 = 5 * n_div_5, whose product with
\* m_inv_5 is n_div_5 itself, the largest value the loop continues on.
C26_Witness ==
    /\ Pow5FactorDone
    /\ hp.fn = "pow5Factor"
    /\ hp.value = BMulSmall(n_div_5, 5)
    /\ BMulWrap(hp.value, m_inv_5, 64) = n_div_5
    /\ hp.count = 1


(***************************************************************************)
(* The frame of the destination.                                           *)
(***************************************************************************)
\* The highest index of dst the call may store to: min(r, nbytes - 1).
LastIndex(c) == Min(ret[c], arg[c].nbytes - 1)

\* No store of call c went to an index above k, and the cells of dst above
\* k hold what they held when the call began.
FrameAbove(c, k) ==
    /\ wr[c].top <= k + 1
    /\ \A j \in (k + 1)..(arg[c].nbytes - 1) : wr[c].dst[j + 1] = Uninit

\* C27: after ryu_string has returned r with nbytes >= 1, no byte of dst at
\* an index above min(r, nbytes - 1) has been stored to: each has the value
\* it had before the call, and the terminator is the last byte written.
C27_DestinationFrame ==
    \A c \in Calls :
        Done(c) /\ arg[c].nbytes >= 1 =>
            /\ FrameAbove(c, LastIndex(c))
            /\ wr[c].top = LastIndex(c) + 1
            /\ wr[c].dst[LastIndex(c) + 1] = NUL

\* A call with the large destination has returned: the terminator is at
\* index r, below the last cell, and the cells after it were not touched;
\* the call before it, with a destination of 3 bytes, was truncated.
C27_Witness ==
    /\ Done(1)
    /\ Done(2)
    /\ arg[2].nbytes = BufSize
    /\ ret[2] > 3
    /\ ret[2] < BufSize - 1
    /\ wr[2].dst[ret[2] + 1] = NUL
    /\ wr[2].dst[BufSize] = Uninit
    /\ arg[1].nbytes = 3
    /\ ret[1] = ret[2]
    /\ wr[1].top = 3


(***************************************************************************)
(* The fast path against the general algorithm.                            *)
(***************************************************************************)
\* What d2d returns for the decoded input, were it called.
GeneralResult == d2d(dec.ieeeMantissa, dec.ieeeExponent)

\* C28: for every input d2d_small_int accepts, the (mantissa, exponent) pair
\* the fast path hands to to_chars after stripping the trailing zeros is the
\* pair d2d returns for the same ieeeMantissa and ieeeExponent.
C28_FastPathAgrees == FastDone => v = GeneralResult

\* 2 * 5^22 = 4768371582031250 has left the stripping loop as
\* 476837158203125 * 10^1, the pair d2d finds by removing digits.
C28_Witness ==
    /\ FastDone
    /\ d2d_small_int(dec.ieeeMantissa, dec.ieeeExponent).ok
    /\ v = [mantissa |-> Pow5(21), exponent |-> 1]
    /\ GeneralResult.exponent = 1
    /\ d2d_step4(d2d_step3(dec.ieeeMantissa, dec.ieeeExponent)).removed >= 1


(***************************************************************************)
(* The two-digit shortcut.                                                 *)
(***************************************************************************)
\* The common path without the shortcut: the one-digit loop alone.
OneDigitLoop(s) == d2d_common_loop(s)

OneDigitAlone(s) == d2d_common_output(OneDigitLoop(s))

\* The shortcut was taken on the triple s: floor(vp/100) > floor(vm/100).
ShortcutTaken(s) == BLt(div100(s.vm), div100(s.vp))

\* C29: in the common path, from any vm <= vr <= vp, the two-digit removal
\* followed by the one-digit loop ends with the same vr, vp, vm, removed,
\* roundUp and output as the one-digit loop alone.
C29_ShortcutTransparent ==
    (lp.pc \in {"loop", "output", "done"} /\ ~lp.s0.general /\ Ordered(lp.s0)) =>
        /\ lp.pc = "loop" => OneDigitLoop(lp.s) = OneDigitLoop(lp.s0)
        /\ lp.pc = "output" => lp.s = OneDigitLoop(lp.s0)
        /\ lp.pc = "done" =>
               /\ lp.s = OneDigitAlone(lp.s0)
               /\ d2d_common(lp.s0) = OneDigitAlone(lp.s0)

\* vm = 95, vr = 195, vp = 1195: the shortcut was taken with roundUp set
\* (95 >= 50), the loop removed a third digit and cleared roundUp, and the
\* output is vr + 1 = 1 (vr = vm = 0) with three digits removed.
C29_Witness ==
    /\ lp.pc = "done"
    /\ lp.s0.vm = BFromInt(95)
    /\ lp.s0.vr = BFromInt(195)
    /\ lp.s0.vp = BFromInt(1195)
    /\ ShortcutTaken(lp.s0)
    /\ d2d_common_two(lp.s0).roundUp
    /\ lp.s.removed = 3
    /\ ~lp.s.roundUp
    /\ lp.s.vr = lp.s.vm
    /\ lp.s.output = <<1>>


(***************************************************************************)
(* Termination of a call of ryu_string.                                    *)
(***************************************************************************)
\* The values d2d may hand to pow5Factor for the decoded double: mv, mp and
\* mm (lines 1413-1440).
Pow5FactorValues ==
    LET mv == BShl(d2d_m2(dec.ieeeMantissa, dec.ieeeExponent), 2)
        mmShift == d2d_mmShift(dec.ieeeMantissa, dec.ieeeExponent)
    IN  {mv, BAdd(mv, <<2>>), BSub(mv, BFromInt(1 + mmShift))}

\* No loop is in a pass with a value of 0: the removal loops with vp, the
\* second loop of the general path with vm, the stripping loop of the fast
\* path with the mantissa, the loop of pow5Factor with its argument.
NoLoopOnZero ==
    /\ lp.pc \in {"loop1", "loop"} => ~BIsZero(lp.s.vp)
    /\ lp.pc = "loop2" => ~BIsZero(lp.s.vm) /\ ~lp.s.diverges
    /\ cpc = "strip" => ~BIsZero(v.mantissa)
    /\ cpc = "d2d" => \A x \in Pow5FactorValues : ~BIsZero(x)

\* The call has returned: the number of characters is in ret.
LiveReturned == Done(1) /\ ret[1] >= 0

\* C30: for every double and every format byte, ryu_string eventually
\* returns, and on the way no loop of the conversion is in a pass with a
\* value of 0 that would keep it running for ever.
C30_Termination == []NoLoopOnZero /\ <>LiveReturned

\* A call has returned for a double on which the second loop of the general
\* path made passes (more digits removed than the first loop removes).
C30_Witness ==
    /\ LiveReturned
    /\ arg[1].fmt = "e"
    /\ lp.pc = "done"
    /\ lp.s0.general
    /\ lp.s0.vmIsTrailingZeros
    /\ lp.s.vmIsTrailingZeros
    /\ lp.s.removed > d2d_general_loop1(lp.s0).removed
    /\ ret[1] > 0

\* The buffer ryu_string goes on with is the one d2s_buffered computes.
LiveBufIsConverted ==
    fr[1].pc = "sign" =>
        \E r \in {ryu_string_switch(arg[1].d, arg[1].fmt)} :
            \A k \in 1..(StrEnd(r, 0) + 1) : fr[1].buf[k] = r[k]

====
